---- MODULE Spec2Model ----
(***************************************************************************)
(* Verification model of the frappe_whatsapp message pipeline.             *)
(*                                                                         *)
(* Part 1 - the debounce coalescer (message_debouncer.py):                 *)
(*   queue_message and process_queued_messages for ONE sender, every       *)
(*   cache operation (get / setex / delete / enqueue) being one atomic     *)
(*   step, so that calls interleave the way concurrent web workers and     *)
(*   background jobs interleave on the shared cache.                       *)
(*   The keys are per sender (get_redis_key / get_processing_key), so      *)
(*   senders do not interact and one sender is modelled.                   *)
(*   The expiry of the keys (20 s for the batch, 11 s for the guard) is    *)
(*   longer than the 10 s a pass sleeps and is not modelled here: a key    *)
(*   lives until a pass deletes it.  Part 4 has the times.                 *)
(*                                                                         *)
(* Part 2 - the draft merge (agents/rag_chain.py, extract_booking_details) *)
(*   as operators over python dicts, applied to bounded inputs.            *)
(*                                                                         *)
(* Part 3 - the booking workflow (whatsapp_message.py,                     *)
(*   handle_text_message_ai): one turn per step over the stored draft of   *)
(*   the sender, the classifiers, the language model and the booking API   *)
(*   being inputs of the turn.                                             *)
(*                                                                         *)
(* Part 4 - the debounce window in seconds (message_debouncer.py): the     *)
(*   sleep of the job and the times to live of the two keys, with          *)
(*   queue_message as one step.                                            *)
(*                                                                         *)
(* Part 5 - the Conversation State Store (agents/rag_chain.py,             *)
(*   get_, save_ and clear_pending_booking_data): the field in the         *)
(*   database, the loaded document and the cache key.                      *)
(*                                                                         *)
(* Each part has its own specification; the variables of the other parts  *)
(* stay at their initial value in it.                                      *)
(***************************************************************************)
EXTENDS Integers, Sequences, FiniteSets, TLC

(***************************************************************************)
(* Bounds                                                                  *)
(***************************************************************************)
\* number of inbound messages of the sender (one queue_message call each)
NumMsgs == 2

Msgs == 1..NumMsgs

\* jobs of the timed window
MaxJobs == 2

Jobs == 1..MaxJobs

\* messages of the timed window
MaxArrivals == 2

\* seconds the timed window is followed
MaxTime == 21

\* content_type values process_queued_messages distinguishes; every other
\* content type (image, ...) matches no branch, exactly like a "button"
\* message that is not a reply
Kinds == {"text", "flow", "button"}

\* for a frontdesk sender process_queued_messages never reads content_type
\* (lines 182-186), so two kinds stand for all of them
FrontdeskKinds == {"text", "flow"}

VARIABLES
    \* ---- shared cache (frappe.cache()) and job queue -----------------
    queue,          \* value at redis_key: the Pending Message Batch (<<>> = no key)
    scheduled,      \* processing_key present (the Scheduling Guard)
    jpc,            \* per job (named after the call that enqueued it): position
    \* ---- queue_message call of message m ------------------------------
    content_type,   \* content_type of message m ("none" before it arrives)
    qpc,            \* position of the call
    queued_messages,\* local queued_messages of the call (after redis.get)
    \* ---- process_queued_messages job j --------------------------------
    jbatch,         \* local queued_messages of the job (after redis.get)
    todo,           \* handler calls the job still has to make, in code order
    is_outlet_frontdesk, \* crm_lead_doc.is_outlet_frontdesk of the sender
    \* ---- history ------------------------------------------------------
    handled,        \* per pass: the handler invocations it made, in order
    sequential,     \* no two queue_message calls have overlapped so far
    oneWindow,      \* every call so far began and ended before any pass read the batch
    \* ---- extract_booking_details(message, existing_data, chat_history) --
    xpc,            \* "idle" (part not running), "call" (inputs chosen), "done"
    existing_data,  \* argument: the draft read from the store
    chat_history,   \* chat_history and LANGCHAIN_AVAILABLE
    llm_json,       \* the JSON object the language model answers with
    fallback_data,  \* what extract_natural_language_booking(message) returns
    xpath,          \* the path the call took
    extraction_result, \* the returned {'data', 'missing_fields', 'is_complete'}
    \* ---- handle_text_message_ai(message, ...) --------------------------
    pending_booking_data, \* Conversation State Store: the stored draft of the sender
    apc,            \* "idle" (between turns) or "done" (the turn has just ended)
    message,        \* the message of the turn, as what the classifiers say of it
    pending_data,   \* local pending_data = get_pending_booking_data(crm_lead_doc)
    api_calls,      \* external booking API calls the turn made, in order
    sent,           \* outbound messages the turn enqueued, in order
    after_question, \* history: the last turn was a general question asked while
                    \* the draft awaited confirmation; the Q&A chain answered it
                    \* and the draft stayed as it was
    branch,         \* the branch of the handler in which the turn returned
    update_detection, \* local update_detection of the turn (NoDetection when
                    \* the turn did not return in the update-request branch)
    intent_analysis, \* local intent_analysis of the turn (NoAnalysis when
                    \* analyze_confirmation_response_intent was not called)
    booking_before_update, \* history: the confirmed booking as stored before the
                    \* update that now awaits confirmation was proposed
    prompts_shown,  \* history: number of turns that showed a confirmation prompt
    commits_made,   \* history: number of booking-commit calls made
    \* ---- validate_booking_timeslot(timeslot) ----------------------------
    timeslot_in,    \* the argument of the call
    timeslot_out,   \* what the call returned, or that it raised
    \* ---- the debounce window in seconds (message_debouncer.py) ---------
    elapsed,        \* seconds since the sender's first message could arrive
    arrivals,       \* number of queue_message calls made so far
    batch_at,       \* value at redis_key: the arrival time of each message in it
    batch_expiry,   \* second at which redis_key expires (0: no key)
    guard_expiry,   \* second at which processing_key expires (0: no key)
    sleeper,        \* per job: its position and the second its sleep ends
    handed,         \* the last batch a job read: when, and its arrival times
    \* ---- the Conversation State Store (rag_chain.py 1782-1861) ---------
    has_custom_field, \* CRM Lead has the custom field pending_booking_data
    db_field,       \* the field's value in the database (JSON text or NoText)
    doc_field,      \* crm_lead_doc.pending_booking_data of the loaded document
    cached_data,    \* value at the cache key pending_booking_{name}
    store_pc,       \* "idle", or "got" after get_pending_booking_data returned
    returned_data,  \* what get_pending_booking_data returned
    written         \* history: the draft of the last save (empty after a clear)

dvars == <<queue, scheduled, jpc, content_type, qpc, queued_messages,
           jbatch, todo, is_outlet_frontdesk, handled, sequential, oneWindow>>

\* the call of extract_booking_details, without what it returned
xcall == <<xpc, existing_data, chat_history, llm_json, fallback_data, xpath>>

xvars == <<xcall, extraction_result>>

avars == <<pending_booking_data, apc, message, pending_data, api_calls, sent,
           after_question, branch, update_detection, intent_analysis,
           booking_before_update, prompts_shown, commits_made>>

tvars == <<timeslot_in, timeslot_out>>

wvars == <<elapsed, arrivals, batch_at, batch_expiry, guard_expiry, sleeper, handed>>

svars == <<has_custom_field, db_field, doc_field, cached_data, store_pc,
           returned_data, written>>

vars == <<dvars, xvars, avars, tvars, wvars, svars>>

(***************************************************************************)
(* Helpers                                                                 *)
(***************************************************************************)
RECURSIVE SeqToSet(_)
SeqToSet(s) == IF s = <<>> THEN {} ELSE {Head(s)} \cup SeqToSet(Tail(s))

IsText(m) == content_type[m] = "text"

\* [msg for msg in queued_messages if msg["content_type"] == "text"]
RECURSIVE text_messages(_)
text_messages(b) ==
    IF b = <<>> THEN <<>>
    ELSE IF IsText(Head(b)) THEN <<Head(b)>> \o text_messages(Tail(b))
         ELSE text_messages(Tail(b))

\* [msg for msg in queued_messages if msg["content_type"] != "text"]
RECURSIVE non_text_messages(_)
non_text_messages(b) ==
    IF b = <<>> THEN <<>>
    ELSE IF ~IsText(Head(b)) THEN <<Head(b)>> \o non_text_messages(Tail(b))
         ELSE non_text_messages(Tail(b))

Call(h, ms) == [handler |-> h, msgs |-> ms]

\* for msg in queued_messages: handle_outlet_frontdesk(msg["message"], ...)
RECURSIVE FrontdeskCalls(_)
FrontdeskCalls(b) ==
    IF b = <<>> THEN <<>>
    ELSE <<Call("handle_outlet_frontdesk", <<Head(b)>>)>> \o FrontdeskCalls(Tail(b))

\* for msg in non_text_messages: flow -> handle_interactive_message,
\* button -> handle_template_message_reply (if the stored message is a reply)
RECURSIVE NonTextCalls(_)
NonTextCalls(b) ==
    IF b = <<>> THEN <<>>
    ELSE (IF content_type[Head(b)] = "flow"
            THEN <<Call("handle_interactive_message", <<Head(b)>>)>>
          ELSE IF content_type[Head(b)] = "button"
            THEN <<Call("handle_template_message_reply", <<Head(b)>>)>>
          ELSE <<>>) \o NonTextCalls(Tail(b))

\* combined_message = "\n".join(...) handed to handle_text_message and then
\* to handle_text_message_ai; the joined text is the sequence of its parts
TextCalls(b) ==
    IF text_messages(b) # <<>>
      THEN << Call("handle_text_message", text_messages(b)),
              Call("handle_text_message_ai", text_messages(b)) >>
      ELSE <<>>

\* Mutant: the non-text messages are replayed before the merged text turn.
PassCalls_NonTextFirst(b, fd) ==
    IF b = <<>> THEN <<>>
    ELSE IF fd THEN FrontdeskCalls(b)
    ELSE NonTextCalls(non_text_messages(b)) \o TextCalls(b)

\* Mutant: no early return on an empty batch and no "if text_messages" guard.
PassCalls_NoEmptyGuard(b, fd) ==
    IF fd THEN FrontdeskCalls(b)
    ELSE << Call("handle_text_message", text_messages(b)),
            Call("handle_text_message_ai", text_messages(b)) >>
         \o NonTextCalls(non_text_messages(b))

\* Mutant: every text message is its own turn.
RECURSIVE SeparateTextCalls(_)
SeparateTextCalls(b) ==
    IF b = <<>> THEN <<>>
    ELSE << Call("handle_text_message", <<Head(b)>>),
            Call("handle_text_message_ai", <<Head(b)>>) >> \o SeparateTextCalls(Tail(b))

PassCalls_SeparateTurns(b, fd) ==
    IF b = <<>> THEN <<>>
    ELSE IF fd THEN FrontdeskCalls(b)
    ELSE SeparateTextCalls(text_messages(b)) \o NonTextCalls(non_text_messages(b))

\* The handler calls one pass makes for the batch it read (lines 161-257).
PassCalls(b, fd) ==
    IF b = <<>> THEN <<>>
    ELSE IF fd THEN FrontdeskCalls(b)
    ELSE TextCalls(b) \o NonTextCalls(non_text_messages(b))

MidCall(m) == qpc[m] \notin {"idle", "done"}
PassHasRead(j) == jpc[j] \notin {"none", "queued"}

(***************************************************************************)
(* Python values.  A dict is a function from its keys; a value is the     *)
(* text json.dumps writes for it, so that values of every python type     *)
(* compare: "None" is None / JSON null, "0" the number zero, "" the empty  *)
(* string, "True" / "False" the booleans; "null" is the four-letter        *)
(* string an extractor may answer with.                                    *)
(***************************************************************************)
None == "None"

\* the values python's `if value` / `not value` treat as false
Falsy == {None, "", "0", "False"}

truthy(v) == v \notin Falsy

\* values that are python numbers, not strings
Numbers == {"0", "1", "2", "90"}

EmptyDict == [k \in {} |-> None]

\* d.get(k)
Get(d, k) == IF k \in DOMAIN d THEN d[k] ELSE None

\* d[k] = v
Put(d, k, v) == [x \in DOMAIN d \cup {k} |-> IF x = k THEN v ELSE d[x]]

\* d.update(u)
Update(d, u) == [x \in DOMAIN d \cup DOMAIN u |-> IF x \in DOMAIN u THEN u[x] ELSE d[x]]

\* d.pop(k, None) / del d[k]
Pop(d, k) == [x \in DOMAIN d \ {k} |-> d[x]]

\* every dict with keys among K and values among V
Dicts(K, V) == UNION {[S -> V] : S \in SUBSET K}

\* The stored draft is one dict.  Its entries with scalar values are kv; the
\* one entry whose value is itself a dict, 'pending_update_fields', is kept
\* apart: <<>> when the key is absent, <<u>> when it holds the dict u.
Draft(kv, puf) == [kv |-> kv, pending_update_fields |-> puf]

\* {} : what get_pending_booking_data returns when nothing is stored
NoDraft == Draft(EmptyDict, <<>>)

\* a message about which every classifier says no
NoMessage ==
    [has_cancel_intent |-> FALSE, is_general_question |-> FALSE,
     is_confirmation_message |-> FALSE, is_change_request |-> FALSE,
     is_about_other_topic |-> FALSE, user_wants_to_book |-> FALSE,
     has_specific_details |-> FALSE]

NoResult == [data |-> NoDraft, missing_fields |-> {}, is_complete |-> FALSE]

(***************************************************************************)
(* Init                                                                    *)
(***************************************************************************)
\* extract_booking_details is not being called
ExtractIdle ==
    /\ xpc = "idle"
    /\ existing_data = NoDraft
    /\ chat_history = FALSE
    /\ llm_json = EmptyDict
    /\ fallback_data = EmptyDict
    /\ xpath = "none"
    /\ extraction_result = NoResult

\* detect_update_intent_with_llm found no update (lines 1581, 1590, 1685)
NoDetection == [is_update |-> FALSE, updated_fields |-> EmptyDict]

\* analyze_confirmation_response_intent has not been called
NoAnalysis == [intent |-> "none", field_updates |-> EmptyDict]

\* no turn has run and nothing is stored for the sender
WorkflowIdle ==
    /\ pending_booking_data = NoDraft
    /\ apc = "idle"
    /\ message = NoMessage
    /\ pending_data = NoDraft
    /\ api_calls = <<>>
    /\ sent = <<>>
    /\ after_question = FALSE
    /\ branch = "none"
    /\ update_detection = NoDetection
    /\ intent_analysis = NoAnalysis
    /\ booking_before_update = NoDraft
    /\ prompts_shown = 0
    /\ commits_made = 0

\* validate_booking_timeslot is not being called
NoVerdict == [valid |-> FALSE, message |-> "none", raised |-> FALSE]

TimeslotIdle ==
    /\ timeslot_in = None
    /\ timeslot_out = NoVerdict

\* no job of the timed window
NoSleeper == [pc |-> "none", wake_at |-> 0]

\* nothing read yet by a job of the timed window
NoHandoff == [at |-> 0, batch |-> <<>>, read |-> FALSE]

\* the timed window is not running
WindowIdle ==
    /\ elapsed = 0
    /\ arrivals = 0
    /\ batch_at = <<>>
    /\ batch_expiry = 0
    /\ guard_expiry = 0
    /\ sleeper = [j \in Jobs |-> NoSleeper]
    /\ handed = NoHandoff

\* None where a JSON text may be: the value of an empty field or cache key
NoText == [none |-> TRUE, json |-> EmptyDict]

\* nothing written by save_pending_booking_data or clear_pending_booking_data
NoWrite == [written |-> FALSE, data |-> EmptyDict]

\* the store is not running
StoreIdle ==
    /\ has_custom_field = FALSE
    /\ db_field = NoText
    /\ doc_field = NoText
    /\ cached_data = NoText
    /\ store_pc = "idle"
    /\ returned_data = EmptyDict
    /\ written = NoWrite

InitDebouncer ==
    /\ queue = <<>>
    /\ scheduled = FALSE
    /\ jpc = [j \in Msgs |-> "none"]
    /\ content_type = [m \in Msgs |-> "none"]
    /\ qpc = [m \in Msgs |-> "idle"]
    /\ queued_messages = [m \in Msgs |-> <<>>]
    /\ jbatch = [j \in Msgs |-> <<>>]
    /\ todo = [j \in Msgs |-> <<>>]
    /\ is_outlet_frontdesk \in BOOLEAN
    /\ handled = [j \in Msgs |-> <<>>]
    /\ sequential = TRUE
    /\ oneWindow = TRUE

Init ==
    /\ InitDebouncer /\ ExtractIdle /\ WorkflowIdle /\ TimeslotIdle
    /\ WindowIdle /\ StoreIdle

(***************************************************************************)
(* queue_message(message_doc)                                              *)
(***************************************************************************)
\* the call for message m begins (messages are numbered in arrival order)
\* and reads the batch: queued_messages = redis.get(redis_key)
QGet(m) ==
    /\ qpc[m] = "idle"
    /\ IF m = 1 THEN TRUE ELSE qpc[m - 1] # "idle"
    /\ \E k \in (IF is_outlet_frontdesk THEN FrontdeskKinds ELSE Kinds) :
          content_type' = [content_type EXCEPT ![m] = k]
    /\ queued_messages' = [queued_messages EXCEPT ![m] = queue]
    /\ qpc' = [qpc EXCEPT ![m] = "setex"]
    /\ sequential' = (sequential /\ \A o \in Msgs : ~MidCall(o))
    /\ oneWindow' = (oneWindow /\ \A j \in Msgs : ~PassHasRead(j))
    /\ UNCHANGED <<queue, scheduled, jpc, jbatch, todo, is_outlet_frontdesk,
                   handled>>
    /\ UNCHANGED <<xvars, avars, tvars, wvars, svars>>

\* queued_messages.append(message_data); redis.setex(redis_key, 20, ...)
QSetex(m) ==
    /\ qpc[m] = "setex"
    /\ queue' = Append(queued_messages[m], m)
    /\ queued_messages' = [queued_messages EXCEPT ![m] = <<>>]
    /\ qpc' = [qpc EXCEPT ![m] = "check"]
    /\ UNCHANGED <<scheduled, jpc, content_type, jbatch, todo,
                   is_outlet_frontdesk, handled, sequential, oneWindow>>
    /\ UNCHANGED <<xvars, avars, tvars, wvars, svars>>

\* is_scheduled = redis.get(processing_key); if set, the call is over
QCheck(m) ==
    /\ qpc[m] = "check"
    /\ qpc' = [qpc EXCEPT ![m] = IF scheduled THEN "done" ELSE "mark"]
    /\ UNCHANGED <<queue, scheduled, jpc, content_type, queued_messages, jbatch,
                   todo, is_outlet_frontdesk, handled, sequential, oneWindow>>
    /\ UNCHANGED <<xvars, avars, tvars, wvars, svars>>

\* redis.setex(processing_key, 11, "1"), then enqueue(process_queued_messages):
\* the enqueue touches nothing another call or job reads before the job itself
\* starts, so the two statements are one step
QMark(m) ==
    /\ qpc[m] = "mark"
    /\ scheduled' = TRUE
    /\ jpc' = [jpc EXCEPT ![m] = "queued"]
    /\ qpc' = [qpc EXCEPT ![m] = "done"]
    /\ UNCHANGED <<queue, content_type, queued_messages, jbatch, todo,
                   is_outlet_frontdesk, handled, sequential, oneWindow>>
    /\ UNCHANGED <<xvars, avars, tvars, wvars, svars>>

(***************************************************************************)
(* process_queued_messages(whatsapp_id)                                    *)
(***************************************************************************)
\* the job starts, sleeps, then queued_messages = redis.get(redis_key)
PGet(j) ==
    /\ jpc[j] = "queued"
    /\ jbatch' = [jbatch EXCEPT ![j] = queue]
    /\ jpc' = [jpc EXCEPT ![j] = "got"]
    /\ oneWindow' = (oneWindow /\ \A o \in Msgs : ~MidCall(o))
    /\ UNCHANGED <<queue, scheduled, content_type, qpc, queued_messages, todo,
                   is_outlet_frontdesk, handled, sequential>>
    /\ UNCHANGED <<xvars, avars, tvars, wvars, svars>>

\* redis.delete(redis_key)
PDelQueue(j) ==
    /\ jpc[j] = "got"
    /\ queue' = <<>>
    /\ jpc' = [jpc EXCEPT ![j] = "delq"]
    /\ UNCHANGED <<scheduled, content_type, qpc, queued_messages, jbatch, todo,
                   is_outlet_frontdesk, handled, sequential, oneWindow>>
    /\ UNCHANGED <<xvars, avars, tvars, wvars, svars>>

\* redis.delete(processing_key); then "if not queued_messages: return",
\* the lead is loaded and the handler calls of the batch are determined
PDelGuard(j) ==
    /\ jpc[j] = "delq"
    /\ scheduled' = FALSE
    /\ todo' = [todo EXCEPT ![j] = PassCalls(jbatch[j], is_outlet_frontdesk)]
    /\ jpc' = [jpc EXCEPT ![j] = IF todo'[j] = <<>> THEN "done" ELSE "run"]
    /\ UNCHANGED <<queue, content_type, qpc, queued_messages, jbatch,
                   is_outlet_frontdesk, handled, sequential, oneWindow>>
    /\ UNCHANGED <<xvars, avars, tvars, wvars, svars>>

\* The ways the handler calls cs of a pass can go, each as the calls that
\* were made, in order: a call is made and returns; a "button" message whose
\* document is not a reply gets no call (line 250); a handler other than
\* handle_text_message_ai (which catches everything itself) may raise, and
\* nothing in process_queued_messages catches it, so the pass ends there.
RECURSIVE Runs(_)
Runs(cs) ==
    IF cs = <<>> THEN {<<>>}
    ELSE LET c == Head(cs)
             made(ok) == [handler |-> c.handler, msgs |-> c.msgs, ok |-> ok]
         IN  {<<made(TRUE)>> \o r : r \in Runs(Tail(cs))}
             \cup (IF c.handler = "handle_template_message_reply"
                   THEN Runs(Tail(cs)) ELSE {})
             \cup (IF c.handler # "handle_text_message_ai"
                   THEN {<<made(FALSE)>>} ELSE {})

Raised(run) == run # <<>> /\ ~run[Len(run)].ok

\* lines 182-257: the handler calls of the pass are made and return.  They
\* touch neither the batch nor the guard, so they are one step; the pass is
\* in its handler calls from PDelGuard to this step.
PHandle(j) ==
    /\ jpc[j] = "run"
    /\ \E run \in Runs(todo[j]) :
          /\ ~Raised(run)
          /\ handled' = [handled EXCEPT ![j] = run]
    /\ todo' = [todo EXCEPT ![j] = <<>>]
    /\ jpc' = [jpc EXCEPT ![j] = "done"]
    /\ UNCHANGED <<queue, scheduled, content_type, qpc, queued_messages, jbatch,
                   is_outlet_frontdesk, sequential, oneWindow>>
    /\ UNCHANGED <<xvars, avars, tvars, wvars, svars>>

\* Mutant: the failed pass puts its batch back and schedules itself again.
PRaise_Retries(j) ==
    /\ jpc[j] = "run"
    /\ \E run \in Runs(todo[j]) :
          /\ Raised(run)
          /\ handled' = [handled EXCEPT ![j] = run]
    /\ todo' = [todo EXCEPT ![j] = <<>>]
    /\ queue' = jbatch[j]
    /\ scheduled' = TRUE
    /\ jpc' = [jpc EXCEPT ![j] = "queued"]
    /\ UNCHANGED <<content_type, qpc, queued_messages, jbatch,
                   is_outlet_frontdesk, sequential, oneWindow>>
    /\ UNCHANGED <<xvars, avars, tvars, wvars, svars>>

\* Mutant: handle_text_message_ai without its try/except, so that any
\* handler call of the pass may be the one that raises.
PRaise_AiRaises(j) ==
    /\ jpc[j] = "run"
    /\ \E i \in 1..Len(todo[j]) :
          handled' = [handled EXCEPT ![j] =
                         [k \in 1..i |-> [handler |-> todo[j][k].handler,
                                          msgs |-> todo[j][k].msgs,
                                          ok |-> k < i]]]
    /\ todo' = [todo EXCEPT ![j] = <<>>]
    /\ jpc' = [jpc EXCEPT ![j] = "failed"]
    /\ UNCHANGED <<queue, scheduled, content_type, qpc, queued_messages, jbatch,
                   is_outlet_frontdesk, sequential, oneWindow>>
    /\ UNCHANGED <<xvars, avars, tvars, wvars, svars>>

\* a handler call raises: the job ends with the rest of the batch unhandled
PRaise(j) ==
    /\ jpc[j] = "run"
    /\ \E run \in Runs(todo[j]) :
          /\ Raised(run)
          /\ handled' = [handled EXCEPT ![j] = run]
    /\ todo' = [todo EXCEPT ![j] = <<>>]
    /\ jpc' = [jpc EXCEPT ![j] = "failed"]
    /\ UNCHANGED <<queue, scheduled, content_type, qpc, queued_messages, jbatch,
                   is_outlet_frontdesk, sequential, oneWindow>>
    /\ UNCHANGED <<xvars, avars, tvars, wvars, svars>>

Next ==
    \/ \E m \in Msgs : QGet(m)
    \/ \E m \in Msgs : QSetex(m)
    \/ \E m \in Msgs : QCheck(m)
    \/ \E m \in Msgs : QMark(m)
    \/ \E j \in Msgs : PGet(j)
    \/ \E j \in Msgs : PDelQueue(j)
    \/ \E j \in Msgs : PDelGuard(j)
    \/ \E j \in Msgs : PHandle(j)

Spec == Init /\ [][Next]_vars

\* the same, with handlers that may raise
NextFault ==
    \/ Next
    \/ \E j \in Msgs : PRaise(j)

SpecFault == Init /\ [][NextFault]_vars

(***************************************************************************)
(* Part 2 - extract_booking_details (agents/rag_chain.py)                  *)
(***************************************************************************)
\* the keys of the extraction prompt's output format
Fields == {"customer_name", "phone", "outlet", "booking_date", "timeslot",
           "pax", "treatment_type", "session", "preferred_masseur",
           "third_party_voucher", "using_package"}

\* required_fields
RequiredFields == {"outlet", "booking_date", "timeslot", "customer_name", "phone"}

SelectAtOutlet == "You may select treatment at the outlet, but will be subject to availability"

\* cleaned_data = {k: v for k, v in extracted_data.items() if v is not None}
extract_booking_with_llm(json) ==
    [k \in {x \in DOMAIN json : json[x] # None} |-> json[k]]

\* for key, value in llm_data.items():
\*     if value and value != "null": booking_info[key] = value
LlmMerge(booking_info, llm_data) ==
    LET use == {k \in DOMAIN llm_data : truthy(llm_data[k]) /\ llm_data[k] # "null"}
    IN  [k \in DOMAIN booking_info \cup use |->
            IF k \in use THEN llm_data[k] ELSE booking_info[k]]

\* for key, value in fallback_data.items():
\*     if key not in booking_info and value: booking_info[key] = value
FallbackMerge(booking_info, fallback) ==
    LET use == {k \in DOMAIN fallback : k \notin DOMAIN booking_info /\ truthy(fallback[k])}
    IN  [k \in DOMAIN booking_info \cup use |->
            IF k \in use THEN fallback[k] ELSE booking_info[k]]

\* if k not in booking_info or not booking_info.get(k): booking_info[k] = v
ApplyDefault(booking_info, k, v) ==
    IF k \notin DOMAIN booking_info \/ ~truthy(Get(booking_info, k))
    THEN Put(booking_info, k, v) ELSE booking_info

ApplyDefaults(booking_info) ==
    ApplyDefault(ApplyDefault(ApplyDefault(ApplyDefault(booking_info,
        "pax", "1"), "session", "90"), "treatment_type", SelectAtOutlet),
        "using_package", "no")

\* The paths of one call:
\*   "llm"             the model's answer is merged (lines 1462-1478)
\*   "llm_raise"       the try block raises before the merge; regex fallback
\*   "llm_merge_raise" the try block raises after the merge; regex fallback
\*   "regex"           no chat history or no LangChain; regex fallback
\*   "error"           the outer except: the existing draft is returned
LlmPaths == {"llm", "llm_raise", "llm_merge_raise"}

Paths == LlmPaths \cup {"regex", "error"}

Merged(booking_info, path, json, fallback) ==
    LET llm_data == extract_booking_with_llm(json)
    IN  CASE path = "llm" -> LlmMerge(booking_info, llm_data)
          [] path = "llm_raise" -> FallbackMerge(booking_info, fallback)
          [] path = "llm_merge_raise" ->
                 FallbackMerge(LlmMerge(booking_info, llm_data), fallback)
          [] OTHER -> FallbackMerge(booking_info, fallback)

\* Mutant: the merge starts from an empty dict instead of existing_data.copy().
extract_booking_details_NoBase(existing, path, json, fallback) ==
    IF path = "error"
    THEN [data |-> existing, missing_fields |-> {}, is_complete |-> FALSE]
    ELSE LET booking_info == ApplyDefaults(Merged(EmptyDict, path, json, fallback))
             missing == {f \in RequiredFields : f \notin DOMAIN booking_info}
         IN  [data |-> [existing EXCEPT !.kv = booking_info],
              missing_fields |-> missing,
              is_complete |-> missing = {}]

\* missing_fields holds the field names (the code lists their labels)
extract_booking_details(existing, path, json, fallback) ==
    IF path = "error"
    THEN [data |-> existing, missing_fields |-> {}, is_complete |-> FALSE]
    ELSE LET booking_info == ApplyDefaults(Merged(existing.kv, path, json, fallback))
             missing == {f \in RequiredFields : f \notin DOMAIN booking_info}
         IN  [data |-> [existing EXCEPT !.kv = booking_info],
              missing_fields |-> missing,
              is_complete |-> missing = {}]

\* ---- bounded inputs of the call --------------------------------------
\* one required field and one field that has a default
InputKeys == {"timeslot", "pax"}

\* an existing draft may hold null or zero where an earlier turn stored the
\* model's field_updates as they came (whatsapp_message.py, 1430-1433)
ExistingValues == {None, "0", "old"}

LlmValues == {None, "null", "0", "new"}

FallbackValues == {"0", "rx"}

\* the other four required fields: all in the existing draft, or none
RestOfRequired ==
    [outlet |-> "SOMA KD", booking_date |-> "2026-01-01",
     customer_name |-> "John", phone |-> "0123456789"]

InitExtract ==
    /\ InitDebouncer /\ is_outlet_frontdesk = FALSE
    /\ WorkflowIdle /\ TimeslotIdle
    /\ WindowIdle /\ StoreIdle
    /\ xpc = "call"
    /\ existing_data \in {Draft(Update(rest, kv), <<>>) :
                              rest \in {EmptyDict, RestOfRequired},
                              kv \in Dicts(InputKeys, ExistingValues)}
    /\ chat_history \in BOOLEAN
    /\ llm_json \in Dicts(InputKeys, LlmValues)
    /\ fallback_data \in Dicts(InputKeys, FallbackValues)
    /\ xpath = "none"
    /\ extraction_result = NoResult

Returned(path) ==
    /\ xpc = "call"
    /\ xpc' = "done"
    /\ xpath' = path
    /\ extraction_result' =
           extract_booking_details(existing_data, path, llm_json, fallback_data)
    /\ UNCHANGED <<existing_data, chat_history, llm_json, fallback_data>>
    /\ UNCHANGED <<dvars, avars, tvars, wvars, svars>>

\* if chat_history and LANGCHAIN_AVAILABLE: the model's answer is merged
ExtractLlm == chat_history /\ Returned("llm")

\* except Exception: (line 1479) fall back to the regex extraction
ExtractLlmRaises ==
    /\ chat_history
    /\ \E path \in {"llm_raise", "llm_merge_raise"} : Returned(path)

\* else: (line 1491) regex extraction of the current message only
ExtractRegex == ~chat_history /\ Returned("regex")

\* except Exception: (line 1555)
ExtractError == Returned("error")

NextExtract ==
    \/ ExtractLlm
    \/ ExtractLlmRaises
    \/ ExtractRegex
    \/ ExtractError

SpecExtract == InitExtract /\ [][NextExtract]_vars

(***************************************************************************)
(* Part 3 - handle_text_message_ai (whatsapp_message.py)                   *)
(***************************************************************************)
\* ---- validate_booking_timeslot (agents/rag_chain.py) ------------------
\* the times of day in use, as <<hour, minute, second>>: every hour, and the
\* minutes and seconds at and around the limits of the operating window
Hours == 0..23

Minutes == {0, 29, 30, 31, 45, 59}

Seconds == {0, 1, 59}

Times == Hours \X Minutes \X Seconds

\* f"{n:02d}"
Pad(n) == IF n < 10 THEN "0" \o ToString(n) ELSE ToString(n)

\* f"{hour:02d}:{minute:02d}:{second:02d}"
TimeText(t) == Pad(t[1]) \o ":" \o Pad(t[2]) \o ":" \o Pad(t[3])

\* strftime('%I:%M %p')
Time12hr(t) ==
    Pad(IF t[1] % 12 = 0 THEN 12 ELSE t[1] % 12) \o ":" \o Pad(t[2])
        \o (IF t[1] < 12 THEN " AM" ELSE " PM")

\* the texts '%H:%M:%S' reads as the time t: %H takes one or two digits
Spellings(t) ==
    {TimeText(t)}
    \cup (IF t[1] < 10
          THEN {ToString(t[1]) \o ":" \o Pad(t[2]) \o ":" \o Pad(t[3])} ELSE {})

\* datetime.strptime(timeslot, '%H:%M:%S').time() of the texts that parse;
\* every other text raises ValueError
Clock ==
    [txt \in UNION {Spellings(t) : t \in Times} |->
        CHOOSE t \in Times : txt \in Spellings(t)]

opening_time == <<11, 0, 0>>

closing_time == <<23, 30, 0>>

\* a < b for datetime.time values
Earlier(a, b) ==
    \/ a[1] < b[1]
    \/ a[1] = b[1] /\ a[2] < b[2]
    \/ a[1] = b[1] /\ a[2] = b[2] /\ a[3] < b[3]

\* Mutant: the limits of the window are themselves outside it.
Outside_Exclusive(t) == ~Earlier(opening_time, t) \/ ~Earlier(t, closing_time)

\* time_obj < opening_time or time_obj > closing_time
Outside(t) == Earlier(t, opening_time) \/ Earlier(closing_time, t)

Verdict(valid, msg, raised) == [valid |-> valid, message |-> msg, raised |-> raised]

\* Mutant: every time before opening gets the PM suggestion.
validate_booking_timeslot_AnyMorning(timeslot) ==
    IF ~truthy(timeslot) THEN Verdict(FALSE, "provide_time", FALSE)
    ELSE IF timeslot \in Numbers \cup {"True"} THEN Verdict(FALSE, "TypeError", TRUE)
    ELSE IF timeslot \notin DOMAIN Clock THEN Verdict(FALSE, "invalid_format", FALSE)
    ELSE LET time_obj == Clock[timeslot]
             time_12hr == Time12hr(time_obj)
             pm_timeslot == TimeText(<<time_obj[1] + 12, time_obj[2], time_obj[3]>>)
         IN  IF Outside(time_obj)
             THEN IF time_obj[1] <= 10 /\ ~Outside(Clock[pm_timeslot])
                  THEN Verdict(FALSE, "closed at " \o time_12hr \o ", did you mean "
                                          \o Time12hr(Clock[pm_timeslot]), FALSE)
                  ELSE Verdict(FALSE, "closed at " \o time_12hr, FALSE)
             ELSE Verdict(TRUE, "", FALSE)

\* raised: strptime of a value that is not a string raises TypeError, which
\* the function's `except ValueError` does not catch
validate_booking_timeslot(timeslot) ==
    IF ~truthy(timeslot) THEN Verdict(FALSE, "provide_time", FALSE)
    ELSE IF timeslot \in Numbers \cup {"True"} THEN Verdict(FALSE, "TypeError", TRUE)
    ELSE IF timeslot \notin DOMAIN Clock THEN Verdict(FALSE, "invalid_format", FALSE)
    ELSE LET time_obj == Clock[timeslot]
             time_12hr == Time12hr(time_obj)
             pm_timeslot == TimeText(<<time_obj[1] + 12, time_obj[2], time_obj[3]>>)
         IN  IF Outside(time_obj)
             THEN IF time_obj[1] >= 1 /\ time_obj[1] <= 10 /\ ~Outside(Clock[pm_timeslot])
                  THEN Verdict(FALSE, "closed at " \o time_12hr \o ", did you mean "
                                          \o Time12hr(Clock[pm_timeslot]), FALSE)
                  ELSE Verdict(FALSE, "closed at " \o time_12hr, FALSE)
             ELSE Verdict(TRUE, "", FALSE)

\* ---- bounded inputs of the call ----------------------------------------
\* texts that are not a time of day in '%H:%M:%S'
MalformedTexts == {"14:00", "2pm", "24:00:00", "23:60:00", "14:00:61", "tomorrow"}

\* every text that parses, the malformed texts, and values that are no text:
\* None, the empty string, False and True, and numbers
TimeslotInputs ==
    DOMAIN Clock \cup MalformedTexts \cup {None, "", "False", "True"} \cup Numbers

InitTimeslot ==
    /\ InitDebouncer /\ is_outlet_frontdesk = FALSE
    /\ ExtractIdle /\ WorkflowIdle
    /\ WindowIdle /\ StoreIdle
    /\ timeslot_in \in TimeslotInputs
    /\ timeslot_out = NoVerdict

ValidateReturns ==
    /\ timeslot_out = NoVerdict
    /\ timeslot_out' = validate_booking_timeslot(timeslot_in)
    /\ UNCHANGED timeslot_in
    /\ UNCHANGED <<dvars, xvars, avars, wvars, svars>>

\* if not timeslot: (line 1725)
ValidateMissing == ~truthy(timeslot_in) /\ ValidateReturns

\* strptime reads the text (lines 1730-1776)
ValidateParsed == timeslot_in \in DOMAIN Clock /\ ValidateReturns

\* except ValueError: (line 1778)
ValidateValueError == timeslot_in \in MalformedTexts /\ ValidateReturns

\* strptime is handed a value that is not a string
ValidateTypeError ==
    /\ truthy(timeslot_in) /\ timeslot_in \in Numbers \cup {"True"}
    /\ ValidateReturns

NextTimeslot ==
    \/ ValidateMissing
    \/ ValidateParsed
    \/ ValidateValueError
    \/ ValidateTypeError

SpecTimeslot == InitTimeslot /\ [][NextTimeslot]_vars

\* ---- inputs of a turn --------------------------------------------------
\* What the keyword classifiers say of the message.  is_confirmation_message
\* and is_change_request look at how the message starts and their keyword
\* lists are disjoint; is_general_question excludes both (line 150).
Messages ==
    {m \in [has_cancel_intent : BOOLEAN, is_general_question : BOOLEAN,
            is_confirmation_message : BOOLEAN, is_change_request : BOOLEAN,
            is_about_other_topic : BOOLEAN, user_wants_to_book : BOOLEAN,
            has_specific_details : BOOLEAN] :
        /\ ~(m.is_confirmation_message /\ m.is_change_request)
        /\ m.is_general_question =>
               ~m.is_confirmation_message /\ ~m.is_change_request}

AllRequired ==
    [outlet |-> "SOMA KD", booking_date |-> "2026-01-01", timeslot |-> "14:00:00",
     customer_name |-> "John", phone |-> "0123456789"]

\* answers of the language model to the extraction prompt
LlmAnswers ==
    {EmptyDict, AllRequired, Pop(AllRequired, "timeslot"),
     [timeslot |-> "15:00:00"], [timeslot |-> "09:00:00"], [timeslot |-> "2"],
     [customer_name |-> "Jane"], [pax |-> "2"]}

\* one call of extract_booking_details: its path and what the extractors gave
Extraction(path, json, fallback) == [path |-> path, json |-> json, fallback |-> fallback]

Extractions ==
    {Extraction("llm", j, EmptyDict) : j \in LlmAnswers}
    \cup {Extraction("llm_raise", EmptyDict, [timeslot |-> "16:00:00"]),
          Extraction("regex", EmptyDict, [timeslot |-> "16:00:00"]),
          Extraction("error", EmptyDict, EmptyDict)}

\* answers of detect_update_intent_with_llm: is_update and updated_fields
UpdateDetections ==
    {[is_update |-> FALSE, updated_fields |-> EmptyDict]}
    \cup {[is_update |-> TRUE, updated_fields |-> u] :
            u \in {EmptyDict, [timeslot |-> "15:00:00"], [timeslot |-> "09:00:00"],
                   [timeslot |-> "2"], [pax |-> "2"]}}

\* answers of analyze_confirmation_response_intent
IntentAnalyses ==
    {[intent |-> "wants_to_change", field_updates |-> EmptyDict],
     [intent |-> "update_fields", field_updates |-> EmptyDict],
     [intent |-> "update_fields", field_updates |-> [timeslot |-> "09:00:00"]],
     [intent |-> "update_fields", field_updates |-> [customer_name |-> "Jane"]],
     [intent |-> "update_fields", field_updates |-> [pax |-> "0"]]}

\* api_response['data']['booking_reference'] of handle_booking_api_mock
BookingReference == "BKG-1"

\* frappe.utils.now_datetime().isoformat()
Now == "now"

key_fields == {"booking_date", "timeslot", "outlet", "pax", "treatment_type", "session"}

\* ---- helpers -----------------------------------------------------------
\* `if pending_data`: a dict is true when it has a key
IsSet(d) == d # NoDraft

\* pending_data.get(k) is true (False when nothing is stored)
Flag(d, k) == IsSet(d) /\ truthy(Get(d.kv, k))

\* d[k] = v for a scalar v
SetKey(d, k, v) == [d EXCEPT !.kv = Put(@, k, v)]

\* ok: the call returned; otherwise it raised
ApiCall(api, booking, ref, ok) ==
    [api |-> api, booking |-> booking, booking_reference |-> ref, ok |-> ok]

\* AWAITING_CONFIRMATION: a draft that was shown for confirmation and is not
\* a confirmed booking
AwaitingConfirmation(d) == Flag(d, "awaiting_confirmation") /\ ~Flag(d, "confirmed")

\* AWAITING_UPDATE_CONFIRMATION: a confirmed booking with a proposed update
AwaitingUpdate(d) == Flag(d, "confirmed") /\ Flag(d, "awaiting_update_confirmation")

\* the turn returns in branch b, which is not the update-request branch
ReturnsIn(b) ==
    /\ branch' = b
    /\ update_detection' = NoDetection
    /\ extraction_result' = NoResult

\* The turn ends: `store` is what the Conversation State Store holds after
\* it, `calls` the booking API calls it made, `out` the messages it enqueued.
EndsWith(msg, store, calls, out, ia) ==
    /\ pending_booking_data' = store
    /\ after_question' = /\ AwaitingConfirmation(pending_booking_data)
                         /\ msg.is_general_question
                         /\ store = pending_booking_data
                         /\ calls = <<>> /\ out = <<"answer">>
    /\ api_calls' = calls
    /\ sent' = out
    /\ message' = msg
    /\ pending_data' = pending_booking_data
    /\ intent_analysis' = ia
    /\ apc' = "done"
    /\ UNCHANGED <<dvars, xcall, tvars, wvars, svars>>

\* ... the turn not having called analyze_confirmation_response_intent
Ends(msg, store, calls, out) == EndsWith(msg, store, calls, out, NoAnalysis)

\* ---- the branches of a turn; pending_data is the store as the turn read it
\* rag_chain.invoke (line 1538): the answer is sent; nothing is sent when it
\* is empty or the chain raises (the outer except, line 1579)
RagChain(msg) ==
    \E out \in {<<"answer">>, <<>>} : Ends(msg, pending_booking_data, <<>>, out)

\* Mutant: the draft is cleared before the cancellation call is made.
CancelBooking_ClearsFirst(msg) ==
    LET pd == pending_booking_data
        call(ok) == ApiCall("cancel", pd, Get(pd.kv, "booking_reference"), ok)
    IN  \E ok \in BOOLEAN :
            IF ok THEN Ends(msg, NoDraft, <<call(ok)>>, <<"cancelled">>)
            ELSE Ends(msg, NoDraft, <<call(ok)>>, <<"cancel_error">>)

\* PRIORITY 1 (lines 851-881): if user_wants_to_cancel and pending_data
CancelBooking(msg) ==
    LET pd == pending_booking_data
        call(ok) == ApiCall("cancel", pd, Get(pd.kv, "booking_reference"), ok)
    IN  \E ok \in BOOLEAN :
            IF ok THEN Ends(msg, NoDraft, <<call(ok)>>, <<"cancelled">>)
            ELSE Ends(msg, pd, <<call(ok)>>, <<"cancel_error">>)

\* Mutant: the confirmed update is saved without `awaiting_update_confirmation
\* = False` and without `del updated_booking['pending_update_fields']`.
UpdateReply_KeepsAwaiting(msg) ==
    LET pd == pending_booking_data
        pending_update_fields ==
            IF pd.pending_update_fields = <<>> THEN EmptyDict
            ELSE pd.pending_update_fields[1]
        booking_reference == Get(pd.kv, "booking_reference")
        updated_booking == [pd EXCEPT !.kv = Update(@, pending_update_fields)]
        call(ok) == ApiCall("update", updated_booking, booking_reference, ok)
        saved == Draft(Put(Put(updated_booking.kv, "confirmed", "True"),
                           "booking_reference", booking_reference),
                       pd.pending_update_fields)
    IN  IF msg.is_confirmation_message
        THEN \E ok \in BOOLEAN :
                IF ok /\ pd.pending_update_fields # <<>>
                THEN Ends(msg, saved, <<call(ok)>>, <<"update_done">>)
                ELSE Ends(msg, pd, <<call(ok)>>, <<"update_error">>)
        ELSE IF msg.is_change_request
        THEN Ends(msg, Draft(Put(pd.kv, "awaiting_update_confirmation", "False"), <<>>),
                  <<>>, <<"update_cancelled">>)
        ELSE Ends(msg, pd, <<>>, <<"update_reminder">>)

\* Mutant: the updated booking is saved before the update call is made.
UpdateReply_SavesFirst(msg) ==
    LET pd == pending_booking_data
        pending_update_fields ==
            IF pd.pending_update_fields = <<>> THEN EmptyDict
            ELSE pd.pending_update_fields[1]
        booking_reference == Get(pd.kv, "booking_reference")
        updated_booking == [pd EXCEPT !.kv = Update(@, pending_update_fields)]
        call(ok) == ApiCall("update", updated_booking, booking_reference, ok)
        saved == Draft(Put(Put(Put(updated_booking.kv, "confirmed", "True"),
                               "booking_reference", booking_reference),
                           "awaiting_update_confirmation", "False"), <<>>)
    IN  IF msg.is_confirmation_message
        THEN \E ok \in BOOLEAN :
                IF pd.pending_update_fields = <<>>
                THEN Ends(msg, pd, <<call(ok)>>, <<"update_error">>)
                ELSE IF ok THEN Ends(msg, saved, <<call(ok)>>, <<"update_done">>)
                ELSE Ends(msg, saved, <<call(ok)>>, <<"update_error">>)
        ELSE IF msg.is_change_request
        THEN Ends(msg, Draft(Put(pd.kv, "awaiting_update_confirmation", "False"), <<>>),
                  <<>>, <<"update_cancelled">>)
        ELSE Ends(msg, pd, <<>>, <<"update_reminder">>)

\* Mutant: a cancelled update clears the flag and leaves
\* pending_update_fields in the draft.
UpdateReply_KeepsFields(msg) ==
    LET pd == pending_booking_data
        pending_update_fields ==
            IF pd.pending_update_fields = <<>> THEN EmptyDict
            ELSE pd.pending_update_fields[1]
        booking_reference == Get(pd.kv, "booking_reference")
        updated_booking == [pd EXCEPT !.kv = Update(@, pending_update_fields)]
        call(ok) == ApiCall("update", updated_booking, booking_reference, ok)
        saved == Draft(Put(Put(Put(updated_booking.kv, "confirmed", "True"),
                               "booking_reference", booking_reference),
                           "awaiting_update_confirmation", "False"), <<>>)
    IN  IF msg.is_confirmation_message
        THEN \E ok \in BOOLEAN :
                IF ok /\ pd.pending_update_fields # <<>>
                THEN Ends(msg, saved, <<call(ok)>>, <<"update_done">>)
                ELSE Ends(msg, pd, <<call(ok)>>, <<"update_error">>)
        ELSE IF msg.is_change_request
        THEN Ends(msg, [pd EXCEPT !.kv = Put(@, "awaiting_update_confirmation", "False")],
                  <<>>, <<"update_cancelled">>)
        ELSE Ends(msg, pd, <<>>, <<"update_reminder">>)

\* lines 910-983: the reply while an update awaits confirmation
UpdateReply(msg) ==
    LET pd == pending_booking_data
        pending_update_fields ==
            IF pd.pending_update_fields = <<>> THEN EmptyDict
            ELSE pd.pending_update_fields[1]
        booking_reference == Get(pd.kv, "booking_reference")
        updated_booking == [pd EXCEPT !.kv = Update(@, pending_update_fields)]
        call(ok) == ApiCall("update", updated_booking, booking_reference, ok)
        saved == Draft(Put(Put(Put(updated_booking.kv, "confirmed", "True"),
                               "booking_reference", booking_reference),
                           "awaiting_update_confirmation", "False"), <<>>)
    IN  IF msg.is_confirmation_message
        THEN \E ok \in BOOLEAN :
                \* del updated_booking['pending_update_fields'] raises KeyError
                \* when the key is absent
                IF ok /\ pd.pending_update_fields # <<>>
                THEN Ends(msg, saved, <<call(ok)>>, <<"update_done">>)
                ELSE Ends(msg, pd, <<call(ok)>>, <<"update_error">>)
        ELSE IF msg.is_change_request
        THEN Ends(msg, Draft(Put(pd.kv, "awaiting_update_confirmation", "False"), <<>>),
                  <<>>, <<"update_cancelled">>)
        ELSE Ends(msg, pd, <<>>, <<"update_reminder">>)

\* Mutant: the updated timeslot is not validated.
ProposeUpdate_NoValidation(msg, updated_fields) ==
    LET pd == pending_booking_data
        updated_kv == Update(pd.kv, updated_fields)
    IN  IF updated_fields = EmptyDict
        THEN Ends(msg, pd, <<>>, <<"ask_what_to_update">>)
        ELSE Ends(msg, Draft(Put(updated_kv, "awaiting_update_confirmation", "True"),
                             <<updated_fields>>),
                  <<>>, <<"confirm_update_prompt">>)

\* Mutant: the update is sent to the API in the turn that detects it.
ProposeUpdate_CallsApi(msg, updated_fields) ==
    LET pd == pending_booking_data
        updated_kv == Update(pd.kv, updated_fields)
        timeslot_validation == validate_booking_timeslot(Get(updated_kv, "timeslot"))
    IN  IF updated_fields = EmptyDict
        THEN Ends(msg, pd, <<>>, <<"ask_what_to_update">>)
        ELSE IF "timeslot" \in DOMAIN updated_fields /\ timeslot_validation.raised
        THEN Ends(msg, pd, <<>>, <<"update_error">>)
        ELSE IF "timeslot" \in DOMAIN updated_fields /\ ~timeslot_validation.valid
        THEN Ends(msg, pd, <<>>, <<timeslot_validation.message>>)
        ELSE Ends(msg, Draft(updated_kv, <<>>),
                  <<ApiCall("update", Draft(updated_kv, <<>>),
                            Get(pd.kv, "booking_reference"), TRUE)>>,
                  <<"update_done">>)

\* lines 988-1122: update_detection['is_update'] on a confirmed booking
ProposeUpdate(msg, updated_fields) ==
    LET pd == pending_booking_data
        updated_kv == Update(pd.kv, updated_fields)
        timeslot_validation == validate_booking_timeslot(Get(updated_kv, "timeslot"))
    IN  IF updated_fields = EmptyDict
        THEN Ends(msg, pd, <<>>, <<"ask_what_to_update">>)
        ELSE IF "timeslot" \in DOMAIN updated_fields /\ timeslot_validation.raised
        THEN Ends(msg, pd, <<>>, <<"update_error">>)
        ELSE IF "timeslot" \in DOMAIN updated_fields /\ ~timeslot_validation.valid
        THEN Ends(msg, pd, <<>>, <<timeslot_validation.message>>)
        ELSE Ends(msg, Draft(Put(updated_kv, "awaiting_update_confirmation", "True"),
                             <<updated_fields>>),
                  <<>>, <<"confirm_update_prompt">>)

\* Mutant: a failed commit leaves the draft in the store.
ConfirmationReply_KeepsOnFailure(msg, booking_data) ==
    LET pd == pending_booking_data
        call(ok) == ApiCall("booking", booking_data, None, ok)
        confirmed_booking_data ==
            [booking_data EXCEPT !.kv =
                Put(Put(Put(@, "confirmed", "True"),
                        "booking_reference", BookingReference), "confirmed_at", Now)]
    IN  IF msg.is_about_other_topic THEN RagChain(msg)
        ELSE IF msg.is_confirmation_message
        THEN IF ~Flag(pd, "awaiting_confirmation")
             THEN Ends(msg, SetKey(booking_data, "awaiting_confirmation", "True"),
                       <<>>, <<"safety_prompt">>)
             ELSE \E ok \in BOOLEAN :
                     IF ok THEN Ends(msg, confirmed_booking_data, <<call(ok)>>,
                                     <<"booking_confirmed">>)
                     ELSE Ends(msg, pd, <<call(ok)>>, <<"booking_error">>)
        ELSE IF msg.is_change_request
        THEN \E ia \in IntentAnalyses :
                LET field_updates == ia.field_updates
                    applied == [k \in DOMAIN booking_data.kv |->
                                   IF k \in DOMAIN field_updates THEN field_updates[k]
                                   ELSE booking_data.kv[k]]
                IN  IF ia.intent = "update_fields" /\ field_updates # EmptyDict
                    THEN EndsWith(msg, [booking_data EXCEPT !.kv =
                                           Put(applied, "awaiting_confirmation", "True")],
                                  <<>>, <<"updated_summary">>, ia)
                    ELSE EndsWith(msg, SetKey(booking_data, "awaiting_confirmation", "False"),
                                  <<>>, <<"ask_what_to_change">>, ia)
        ELSE RagChain(msg)

\* lines 1252-1470: elif awaiting_confirmation
ConfirmationReply(msg, booking_data) ==
    LET pd == pending_booking_data
        call(ok) == ApiCall("booking", booking_data, None, ok)
        confirmed_booking_data ==
            [booking_data EXCEPT !.kv =
                Put(Put(Put(@, "confirmed", "True"),
                        "booking_reference", BookingReference), "confirmed_at", Now)]
    IN  IF msg.is_about_other_topic THEN RagChain(msg)
        ELSE IF msg.is_confirmation_message
        THEN IF ~Flag(pd, "awaiting_confirmation")
             THEN Ends(msg, SetKey(booking_data, "awaiting_confirmation", "True"),
                       <<>>, <<"safety_prompt">>)
             ELSE \E ok \in BOOLEAN :
                     IF ok THEN Ends(msg, confirmed_booking_data, <<call(ok)>>,
                                     <<"booking_confirmed">>)
                     ELSE Ends(msg, NoDraft, <<call(ok)>>, <<"booking_error">>)
        ELSE IF msg.is_change_request
        THEN \E ia \in IntentAnalyses :
                LET field_updates == ia.field_updates
                    applied == [k \in DOMAIN booking_data.kv |->
                                   IF k \in DOMAIN field_updates THEN field_updates[k]
                                   ELSE booking_data.kv[k]]
                IN  IF ia.intent = "update_fields" /\ field_updates # EmptyDict
                    THEN EndsWith(msg, [booking_data EXCEPT !.kv =
                                           Put(applied, "awaiting_confirmation", "True")],
                                  <<>>, <<"updated_summary">>, ia)
                    ELSE EndsWith(msg, SetKey(booking_data, "awaiting_confirmation", "False"),
                                  <<>>, <<"ask_what_to_change">>, ia)
        ELSE RagChain(msg)

\* BookingFlow, except that a complete draft is committed at once when the
\* message reads as a confirmation, whether or not a prompt was shown before
BookingFlow_NoRoundTrip(msg, extraction) ==
    LET pd == pending_booking_data
        booking_data == extraction.data
        timeslot_validation == validate_booking_timeslot(Get(booking_data.kv, "timeslot"))
        booking_changed ==
            /\ Flag(pd, "awaiting_confirmation")
            /\ \E field \in key_fields : Get(pd.kv, field) # Get(booking_data.kv, field)
        awaiting_confirmation == ~booking_changed /\ Flag(pd, "awaiting_confirmation")
    IN  IF ~extraction.is_complete
        THEN Ends(msg, booking_data, <<>>, <<"ask_missing">>)
        ELSE IF timeslot_validation.raised
        THEN Ends(msg, pd, <<>>, <<>>)
        ELSE IF ~timeslot_validation.valid
        THEN Ends(msg, [booking_data EXCEPT !.kv = Pop(@, "timeslot")],
                  <<>>, <<timeslot_validation.message>>)
        ELSE IF msg.is_general_question /\ awaiting_confirmation
        THEN RagChain(msg)
        ELSE IF awaiting_confirmation
        THEN ConfirmationReply(msg, booking_data)
        ELSE IF msg.is_confirmation_message
        THEN Ends(msg, SetKey(booking_data, "confirmed", "True"),
                  <<ApiCall("booking", booking_data, None, TRUE)>>, <<"booking_confirmed">>)
        ELSE Ends(msg, SetKey(booking_data, "awaiting_confirmation", "True"),
                  <<>>, <<"confirmation_prompt">>)

\* Mutant: a draft awaiting confirmation is never taken as changed.
BookingFlow_IgnoresChange(msg, extraction) ==
    LET pd == pending_booking_data
        booking_data == extraction.data
        timeslot_validation == validate_booking_timeslot(Get(booking_data.kv, "timeslot"))
        awaiting_confirmation == Flag(pd, "awaiting_confirmation")
    IN  IF ~extraction.is_complete
        THEN Ends(msg, booking_data, <<>>, <<"ask_missing">>)
        ELSE IF timeslot_validation.raised
        THEN Ends(msg, pd, <<>>, <<>>)
        ELSE IF ~timeslot_validation.valid
        THEN Ends(msg, [booking_data EXCEPT !.kv = Pop(@, "timeslot")],
                  <<>>, <<timeslot_validation.message>>)
        ELSE IF msg.is_general_question /\ awaiting_confirmation
        THEN RagChain(msg)
        ELSE IF awaiting_confirmation
        THEN ConfirmationReply(msg, booking_data)
        ELSE Ends(msg, SetKey(booking_data, "awaiting_confirmation", "True"),
                  <<>>, <<"confirmation_prompt">>)

\* lines 1160-1529: what the turn does with the extraction result
BookingFlow(msg, extraction) ==
    LET pd == pending_booking_data
        booking_data == extraction.data
        timeslot_validation == validate_booking_timeslot(Get(booking_data.kv, "timeslot"))
        booking_changed ==
            /\ Flag(pd, "awaiting_confirmation")
            /\ \E field \in key_fields : Get(pd.kv, field) # Get(booking_data.kv, field)
        awaiting_confirmation == ~booking_changed /\ Flag(pd, "awaiting_confirmation")
    IN  IF ~extraction.is_complete
        THEN Ends(msg, booking_data, <<>>, <<"ask_missing">>)
        ELSE IF timeslot_validation.raised
        THEN Ends(msg, pd, <<>>, <<>>)
        ELSE IF ~timeslot_validation.valid
        THEN Ends(msg, [booking_data EXCEPT !.kv = Pop(@, "timeslot")],
                  <<>>, <<timeslot_validation.message>>)
        ELSE IF msg.is_general_question /\ awaiting_confirmation
        THEN RagChain(msg)
        ELSE IF awaiting_confirmation
        THEN ConfirmationReply(msg, booking_data)
        ELSE Ends(msg, SetKey(booking_data, "awaiting_confirmation", "True"),
                  <<>>, <<"confirmation_prompt">>)

\* PRIORITY 3 (lines 1132-1159): the new-booking flow or the Q&A chain
NewBooking(msg) ==
    LET pd == pending_booking_data
        has_pending_data == IsSet(pd) /\ ~Flag(pd, "confirmed")
    IN  IF /\ msg.is_general_question
           /\ ~msg.user_wants_to_book
           /\ ~msg.has_specific_details
        THEN RagChain(msg) /\ ReturnsIn("rag_chain")
        ELSE IF msg.user_wants_to_book \/ msg.has_specific_details \/ has_pending_data
        THEN \E x \in Extractions :
                LET extraction == extract_booking_details(pd, x.path, x.json, x.fallback)
                IN  /\ BookingFlow(msg, extraction)
                    /\ branch' = "booking_flow"
                    /\ update_detection' = NoDetection
                    /\ extraction_result' = extraction
        ELSE RagChain(msg) /\ ReturnsIn("rag_chain")

\* Mutant: the reply to a proposed update is looked at before the cancel
\* keyword.
handle_text_message_ai_UpdateFirst(msg) ==
    LET pd == pending_booking_data
        booking_was_confirmed == Flag(pd, "confirmed")
    IN  /\ apc = "idle"
        /\ \E history_ok \in BOOLEAN :
              IF ~history_ok THEN Ends(msg, pd, <<>>, <<>>) /\ ReturnsIn("error")
              ELSE IF /\ booking_was_confirmed
                      /\ Flag(pd, "awaiting_update_confirmation")
                      /\ ~msg.is_general_question
              THEN UpdateReply(msg) /\ ReturnsIn("update_reply")
              ELSE IF msg.has_cancel_intent /\ IsSet(pd)
              THEN CancelBooking(msg) /\ ReturnsIn("cancel")
              ELSE IF booking_was_confirmed
              THEN \E detection \in UpdateDetections :
                      IF detection.is_update
                      THEN /\ ProposeUpdate(msg, detection.updated_fields)
                           /\ branch' = "update_request"
                           /\ update_detection' = detection
                           /\ extraction_result' = NoResult
                      ELSE NewBooking(msg)
              ELSE NewBooking(msg)

\* One turn: handle_text_message_ai(message, ...) from its state read to its
\* return.  get_whatsapp_messages (line 842) may raise, which ends the turn
\* in the outer except with nothing done.
handle_text_message_ai(msg) ==
    LET pd == pending_booking_data
        booking_was_confirmed == Flag(pd, "confirmed")
    IN  /\ apc = "idle"
        /\ \E history_ok \in BOOLEAN :
              IF ~history_ok THEN Ends(msg, pd, <<>>, <<>>) /\ ReturnsIn("error")
              ELSE IF msg.has_cancel_intent /\ IsSet(pd)
              THEN CancelBooking(msg) /\ ReturnsIn("cancel")
              ELSE IF /\ booking_was_confirmed
                      /\ Flag(pd, "awaiting_update_confirmation")
                      /\ ~msg.is_general_question
              THEN UpdateReply(msg) /\ ReturnsIn("update_reply")
              ELSE IF booking_was_confirmed
              THEN \E detection \in UpdateDetections :
                      IF detection.is_update
                      THEN /\ ProposeUpdate(msg, detection.updated_fields)
                           /\ branch' = "update_request"
                           /\ update_detection' = detection
                           /\ extraction_result' = NoResult
                      ELSE NewBooking(msg)
              ELSE NewBooking(msg)

\* the handler has returned: its locals are gone, the store stays
Return ==
    /\ apc = "done"
    /\ apc' = "idle"
    /\ message' = NoMessage
    /\ pending_data' = NoDraft
    /\ api_calls' = <<>>
    /\ sent' = <<>>
    /\ branch' = "none"
    /\ update_detection' = NoDetection
    /\ intent_analysis' = NoAnalysis
    /\ extraction_result' = NoResult
    /\ booking_before_update' =
           IF AwaitingUpdate(pending_booking_data) THEN booking_before_update ELSE NoDraft
    /\ UNCHANGED <<pending_booking_data, after_question, prompts_shown, commits_made>>
    /\ UNCHANGED <<dvars, xcall, tvars, wvars, svars>>

InitAI ==
    /\ InitDebouncer /\ is_outlet_frontdesk = FALSE
    /\ ExtractIdle
    /\ WorkflowIdle /\ TimeslotIdle
    /\ WindowIdle /\ StoreIdle

\* a turn, the update history not being kept
Turn ==
    /\ \E msg \in Messages : handle_text_message_ai(msg)
    /\ UNCHANGED <<booking_before_update, prompts_shown, commits_made>>

NextAI ==
    \/ Turn
    \/ Return

SpecAI == InitAI /\ [][NextAI]_vars

\* a turn, the stored booking being remembered when the turn proposes an
\* update of it
TurnOfUpdate ==
    /\ \E msg \in Messages : handle_text_message_ai(msg)
    /\ booking_before_update' =
           IF AwaitingUpdate(pending_booking_data') /\ ~AwaitingUpdate(pending_booking_data)
           THEN pending_booking_data
           ELSE booking_before_update
    /\ UNCHANGED <<prompts_shown, commits_made>>

NextUpdate ==
    \/ TurnOfUpdate
    \/ Return

SpecUpdate == InitAI /\ [][NextUpdate]_vars

\* the turns of one sender that are followed with the two counts
MaxCount == 2

\* the messages of a turn that show the draft and ask for its confirmation:
\* the first prompt (line 1484), the prompt of the safety check (1292) and
\* the revised details of a reply with new values (1440)
ConfirmationPrompts == {"confirmation_prompt", "safety_prompt", "updated_summary"}

\* a turn, the confirmation prompts and the booking-commit calls being counted
TurnCounted ==
    /\ prompts_shown < MaxCount /\ commits_made < MaxCount
    /\ \E msg \in Messages : handle_text_message_ai(msg)
    /\ prompts_shown' =
           IF \E i \in 1..Len(sent') : sent'[i] \in ConfirmationPrompts
           THEN prompts_shown + 1 ELSE prompts_shown
    /\ commits_made' =
           commits_made + Cardinality({i \in 1..Len(api_calls') : api_calls'[i].api = "booking"})
    /\ UNCHANGED booking_before_update

NextCount ==
    \/ TurnCounted
    \/ Return

SpecCount == InitAI /\ [][NextCount]_vars

(***************************************************************************)
(* The debounce window in seconds                                          *)
(*                                                                         *)
(* queue_message as one step at the second it is called, and               *)
(* process_queued_messages with its sleep: the job is started by a worker  *)
(* at some second after it was enqueued, sleeps `timeout` seconds and      *)
(* then reads and deletes the batch.  The keys expire as setex sets them.  *)
(***************************************************************************)
\* timeout = 10 (message_debouncer.py lines 83 and 140)
timeout == 10

\* a key set with setex is in the cache until its time to live is over
Live(expiry) == elapsed < expiry

\* a second passes
Tick ==
    /\ elapsed < MaxTime
    /\ elapsed' = elapsed + 1
    /\ UNCHANGED <<arrivals, batch_at, batch_expiry, guard_expiry, sleeper, handed>>
    /\ UNCHANGED <<dvars, xvars, avars, tvars, svars>>

\* queue_message (lines 73-106): the message is appended to the batch, which
\* is stored for 2 * timeout seconds; if the guard is not set, it is set for
\* timeout + 1 seconds and a job is enqueued.  A guard that is set leaves
\* the job as it is (line 107).
queue_message ==
    /\ arrivals < MaxArrivals
    /\ arrivals' = arrivals + 1
    /\ batch_at' = Append(IF Live(batch_expiry) THEN batch_at ELSE <<>>, elapsed)
    /\ batch_expiry' = elapsed + timeout * 2
    /\ IF Live(guard_expiry)
       THEN UNCHANGED <<guard_expiry, sleeper>>
       ELSE /\ guard_expiry' = elapsed + timeout + 1
            /\ \E j \in Jobs :
                  /\ sleeper[j].pc = "none"
                  /\ \A k \in Jobs : k < j => sleeper[k].pc # "none"
                  /\ sleeper' = [sleeper EXCEPT ![j] = [pc |-> "queued", wake_at |-> 0]]
    /\ UNCHANGED <<elapsed, handed>>
    /\ UNCHANGED <<dvars, xvars, avars, tvars, svars>>

\* a worker starts the job: time.sleep(timeout) (lines 139-141)
JobSleeps(j) ==
    /\ sleeper[j].pc = "queued"
    /\ sleeper' = [sleeper EXCEPT ![j] = [pc |-> "sleeping", wake_at |-> elapsed + timeout]]
    /\ UNCHANGED <<elapsed, arrivals, batch_at, batch_expiry, guard_expiry, handed>>
    /\ UNCHANGED <<dvars, xvars, avars, tvars, svars>>

\* the sleep is over: redis.get(redis_key), then both keys are deleted
\* (lines 149-159) and the batch goes to the handlers
JobReads(j) ==
    /\ sleeper[j].pc = "sleeping"
    /\ elapsed >= sleeper[j].wake_at
    /\ handed' = [at |-> elapsed,
                  batch |-> IF Live(batch_expiry) THEN batch_at ELSE <<>>,
                  read |-> TRUE]
    /\ batch_at' = <<>>
    /\ batch_expiry' = 0
    /\ guard_expiry' = 0
    /\ sleeper' = [sleeper EXCEPT ![j] = [pc |-> "done", wake_at |-> 0]]
    /\ UNCHANGED <<elapsed, arrivals>>
    /\ UNCHANGED <<dvars, xvars, avars, tvars, svars>>

InitWindow ==
    /\ InitDebouncer /\ is_outlet_frontdesk = FALSE
    /\ ExtractIdle /\ WorkflowIdle /\ TimeslotIdle
    /\ WindowIdle /\ StoreIdle

NextWindow ==
    \/ Tick
    \/ queue_message
    \/ \E j \in Jobs : JobSleeps(j)
    \/ \E j \in Jobs : JobReads(j)

SpecWindow == InitWindow /\ [][NextWindow]_vars

(***************************************************************************)
(* The Conversation State Store (agents/rag_chain.py lines 1782-1861)      *)
(*                                                                         *)
(* get_, save_ and clear_pending_booking_data of one lead.  The draft is   *)
(* kept as JSON text in the custom field pending_booking_data of the CRM   *)
(* Lead, or in the cache when the document has no such field or the write  *)
(* to the field raises.  save and clear write the database with            *)
(* frappe.db.set_value; get reads the attribute of the document object it  *)
(* is handed, which holds what frappe.get_doc loaded.                      *)
(***************************************************************************)
\* drafts handed to save_pending_booking_data
StoreDrafts ==
    {EmptyDict,
     [timeslot |-> "14:00:00"],
     [timeslot |-> "15:00:00", awaiting_confirmation |-> "True", pax |-> None]}

\* json.dumps of a value: None, True and False have their JSON words, a
\* string is put in quotes
JsonValue(v) ==
    IF v = None THEN "null"
    ELSE IF v = "True" THEN "true"
    ELSE IF v = "False" THEN "false"
    ELSE "\"" \o v \o "\""

\* the python value of a JSON value
PyValue(j) ==
    IF j = "null" THEN None
    ELSE IF j = "true" THEN "True"
    ELSE IF j = "false" THEN "False"
    ELSE CHOOSE v \in UNION {{d[k] : k \in DOMAIN d} : d \in StoreDrafts} :
             "\"" \o v \o "\"" = j

\* json.dumps(booking_data, default=str): the text, as its members
dumps(booking_data) ==
    [none |-> FALSE, json |-> [k \in DOMAIN booking_data |-> JsonValue(booking_data[k])]]

\* json.loads(text)
loads(text) == [k \in DOMAIN text.json |-> PyValue(text.json[k])]

\* `if text`: None is false, a JSON text is a string that is not empty
HasText(text) == ~text.none

\* the store of a lead with or without the custom field; nothing stored yet
\* and the document loaded
InitStore ==
    /\ InitDebouncer /\ is_outlet_frontdesk = FALSE
    /\ ExtractIdle /\ WorkflowIdle /\ TimeslotIdle
    /\ WindowIdle
    /\ has_custom_field \in BOOLEAN
    /\ db_field = NoText
    /\ doc_field = NoText
    /\ cached_data = NoText
    /\ store_pc = "idle"
    /\ returned_data = EmptyDict
    /\ written = NoWrite

\* save_pending_booking_data, the field written (lines 1823-1828):
\* frappe.db.set_value and commit; the document object is not touched
SaveToField(booking_data) ==
    /\ has_custom_field
    /\ db_field' = dumps(booking_data)
    /\ written' = [written |-> TRUE, data |-> booking_data]
    /\ store_pc' = "idle"
    /\ UNCHANGED <<has_custom_field, doc_field, cached_data, returned_data>>
    /\ UNCHANGED <<dvars, xvars, avars, tvars, wvars>>

\* save_pending_booking_data, the fallback (lines 1832-1836): the document
\* has no such field, or set_value raised (line 1829)
SaveToCache(booking_data) ==
    /\ cached_data' = dumps(booking_data)
    /\ written' = [written |-> TRUE, data |-> booking_data]
    /\ store_pc' = "idle"
    /\ UNCHANGED <<has_custom_field, db_field, doc_field, returned_data>>
    /\ UNCHANGED <<dvars, xvars, avars, tvars, wvars>>

\* clear_pending_booking_data (lines 1840-1861): the field is set to None
\* when the document has it, and the cache key is deleted
clear_pending_booking_data ==
    /\ db_field' = IF has_custom_field THEN NoText ELSE db_field
    /\ cached_data' = NoText
    /\ written' = [written |-> TRUE, data |-> EmptyDict]
    /\ store_pc' = "idle"
    /\ UNCHANGED <<has_custom_field, doc_field, returned_data>>
    /\ UNCHANGED <<dvars, xvars, avars, tvars, wvars>>

\* frappe.get_doc (message_debouncer.py line 179): the next pass loads the
\* document anew
LoadDoc ==
    /\ doc_field # db_field
    /\ doc_field' = db_field
    /\ store_pc' = "idle"
    /\ UNCHANGED <<has_custom_field, db_field, cached_data, returned_data, written>>
    /\ UNCHANGED <<dvars, xvars, avars, tvars, wvars>>

\* get_pending_booking_data (lines 1782-1809): the attribute of the document
\* when it has the field and a value in it, else the cache, else {}
get_pending_booking_data ==
    /\ store_pc = "idle"
    /\ returned_data' =
           IF has_custom_field /\ HasText(doc_field) THEN loads(doc_field)
           ELSE IF HasText(cached_data) THEN loads(cached_data)
           ELSE EmptyDict
    /\ store_pc' = "got"
    /\ UNCHANGED <<has_custom_field, db_field, doc_field, cached_data, written>>
    /\ UNCHANGED <<dvars, xvars, avars, tvars, wvars>>

NextStore ==
    \/ \E booking_data \in StoreDrafts : SaveToField(booking_data)
    \/ \E booking_data \in StoreDrafts : SaveToCache(booking_data)
    \/ clear_pending_booking_data
    \/ LoadDoc
    \/ get_pending_booking_data

SpecStore == InitStore /\ [][NextStore]_vars

(***************************************************************************)
(* Properties of the debounce coalescer                                    *)
(***************************************************************************)
Arrived == {m \in Msgs : qpc[m] # "idle"}

\* messages are numbered in the order their queue_message calls began
ArrivalSeq == [i \in 1..Cardinality(Arrived) |-> i]

AllCallsDone == \A m \in Arrived : qpc[m] = "done"
NoPassStarted == \A j \in Msgs : jpc[j] \in {"none", "queued"}
AtRest == AllCallsDone /\ \A j \in Msgs : jpc[j] \in {"none", "done"}

RECURSIVE MsgsOfCalls(_)
MsgsOfCalls(cs) ==
    IF cs = <<>> THEN {} ELSE SeqToSet(Head(cs).msgs) \cup MsgsOfCalls(Tail(cs))

\* the messages pass j handed to some handler
HandledBy(j) == MsgsOfCalls(handled[j])

\* position of the first handler call of pass j that carries message m
FirstIdx(j, m) ==
    CHOOSE i \in 1..Len(handled[j]) :
        /\ m \in SeqToSet(handled[j][i].msgs)
        /\ \A k \in 1..(i - 1) : m \notin SeqToSet(handled[j][k].msgs)

AiCalls(j) == {i \in 1..Len(handled[j]) : handled[j][i].handler = "handle_text_message_ai"}

\* C1 (as claimed): concurrent queue_message calls of one sender inside one
\* debounce window, starting with no guard set, schedule exactly one
\* process_queued_messages job - never zero, never more than one.
C1_ExactlyOneScheduled ==
    (Cardinality(Arrived) >= 2 /\ AllCallsDone /\ NoPassStarted)
        => Cardinality({j \in Msgs : jpc[j] = "queued"}) = 1

\* C2 (as claimed): after any interleaving of concurrent queue_message calls
\* inside one window the Pending Message Batch holds every enqueued message
\* exactly once, in arrival order.
C2_BatchHoldsEveryMessage ==
    (Cardinality(Arrived) >= 2 /\ AllCallsDone /\ NoPassStarted)
        => queue = ArrivalSeq

\* C4 (as claimed): every message is handed to the handlers by at most one
\* process_queued_messages pass.
C4_AtMostOnePass ==
    \A m \in Msgs : Cardinality({j \in Msgs : m \in HandledBy(j)}) <= 1

\* C5 (as claimed, in its finite form): when the queue_message calls ran one
\* after the other (passes running alongside them), then once every call has
\* returned and every scheduled pass has run to its end without a handler
\* raising, every message that has a handler (text, flow, or any message of
\* a frontdesk sender) was handed to one; no message was deleted unprocessed
\* or left in a batch without a pass.
C5_EveryMessageHandled ==
    (sequential /\ AtRest) =>
        \A m \in Arrived :
            (is_outlet_frontdesk \/ content_type[m] \in {"text", "flow"})
                => \E j \in Msgs : m \in HandledBy(j)

\* C6 (as claimed): the handler calls of one batch never interleave with
\* those of another batch of the sender - no two passes are in the middle of
\* their handler calls at the same time.
C6_BatchesSerialized ==
    \A j, k \in Msgs :
        (j # k /\ jpc[j] = "run") => jpc[k] # "run"

\* C7: a pass that read an empty (already cleared) batch calls no handler.
C7_EmptyBatchNoHandler ==
    \A j \in Msgs :
        (PassHasRead(j) /\ jbatch[j] = <<>>) => (handled[j] = <<>> /\ todo[j] = <<>>)

\* C7 witness: a duplicate pass found the batch cleared and ended, while an
\* earlier pass had processed the batch.
C7_Witness ==
    \E j, k \in Msgs :
        /\ j # k
        /\ jpc[j] = "done" /\ jbatch[j] = <<>>
        /\ jpc[k] = "done" /\ handled[k] # <<>>

C18_RaiseTouchesNothing ==
    \A j \in Msgs :
        /\ (~Raised(handled[j]) /\ Raised(handled'[j])) =>
               /\ queue' = queue
               /\ scheduled' = scheduled
               /\ jpc'[j] = "failed"
               /\ \A k \in Msgs \ {j} : jpc'[k] = jpc[k]
        /\ Raised(handled[j]) =>
               /\ jpc'[j] = jpc[j]
               /\ handled'[j] = handled[j]

C18_NoSecondProcessing ==
    \A j \in Msgs :
        (Raised(handled[j]) /\ sequential /\ oneWindow) =>
            \A m \in SeqToSet(jbatch[j]) :
                /\ m \notin SeqToSet(queue)
                /\ \A k \in Msgs \ {j} : m \notin HandledBy(k) /\ jpc[k] = "none"

C18_FailedBatchConsumed ==
    [](C18_NoSecondProcessing) /\ [][C18_RaiseTouchesNothing]_vars

\* C18 witness: a pass failed in a handler after the two messages of its
\* batch were enqueued in sequence; batch and guard are clear.
C18_Witness ==
    \E j \in Msgs :
        /\ Raised(handled[j]) /\ jpc[j] = "failed"
        /\ sequential /\ oneWindow
        /\ Len(jbatch[j]) >= 2
        /\ handled[j] # <<>>
        /\ queue = <<>> /\ ~scheduled

C35_WindowFromLastMessage ==
    (handed.read /\ handed.batch # <<>>) =>
        handed.at >= handed.batch[Len(handed.batch)] + timeout

(***************************************************************************)
(* Properties of the Conversation State Store                              *)
(***************************************************************************)
\* C36: get_pending_booking_data after save_pending_booking_data(d) returns
\* d, and after clear_pending_booking_data the empty draft, whichever of the
\* field and the cache served the write and whether or not the document was
\* loaded anew in between.
C36_StoreRoundTrip ==
    (store_pc = "got" /\ written.written) => returned_data = written.data

(***************************************************************************)
(* Properties of the draft merge                                           *)
(***************************************************************************)
\* the extractor the call used returned v, a non-null value, for field k
Supplied(k, v) ==
    \/ /\ xpath \in {"llm", "llm_merge_raise"}
       /\ k \in DOMAIN llm_json /\ llm_json[k] = v /\ v \notin {None, "null"}
    \/ /\ xpath \in {"llm_raise", "llm_merge_raise", "regex"}
       /\ k \in DOMAIN fallback_data /\ fallback_data[k] = v /\ v # None

\* C10: a merge keeps every field of the existing draft that holds a value,
\* and changes such a field only to a non-null value the extractor returned
\* for it; in particular never to a default.
C10_MergeKeepsExisting ==
    xpc = "done" =>
        \A k \in DOMAIN existing_data.kv :
            existing_data.kv[k] # None =>
                /\ k \in DOMAIN extraction_result.data.kv
                /\ \/ extraction_result.data.kv[k] = existing_data.kv[k]
                   \/ Supplied(k, extraction_result.data.kv[k])

\* the value lines 1504-1521 give an optional field
DefaultValue ==
    [pax |-> "1", session |-> "90", treatment_type |-> SelectAtOutlet,
     using_package |-> "no"]

\* the call wrote the default into field k: the result holds the default,
\* which is neither the value the existing draft had nor a value the
\* extractor returned
Defaulted(k) ==
    /\ xpc = "done" /\ xpath # "error"
    /\ k \in DOMAIN extraction_result.data.kv
    /\ extraction_result.data.kv[k] = DefaultValue[k]
    /\ Get(existing_data.kv, k) # DefaultValue[k]
    /\ ~Supplied(k, DefaultValue[k])

\* C11 (as claimed): a default is written into the draft only by a merge
\* after which all five required fields are present; a draft with a required
\* field still missing carries no defaulted optional field.
C11_DefaultsOnlyWhenComplete ==
    \A k \in DOMAIN DefaultValue :
        Defaulted(k) =>
            /\ extraction_result.is_complete
            /\ extraction_result.missing_fields = {}

\* C12: the merge-and-default step is idempotent - run again on its own
\* output, on any path, with extractors that return nothing, or on the same
\* path with extractors that return what they returned before, it yields
\* the same draft, the same missing fields and the same completeness.
C12_DefaultsIdempotent ==
    (xpc = "done" /\ xpath # "error") =>
        /\ \A p \in Paths \ {"error"} :
               extract_booking_details(extraction_result.data, p, EmptyDict, EmptyDict)
                   = extraction_result
        /\ extract_booking_details(extraction_result.data, xpath, llm_json, fallback_data)
               = extraction_result

\* C12 witness: a merge that took a value from the extractor and wrote the
\* default of pax has returned.
C12_Witness ==
    /\ Defaulted("pax")
    /\ "timeslot" \in DOMAIN extraction_result.data.kv
    /\ Supplied("timeslot", extraction_result.data.kv["timeslot"])
    /\ "timeslot" \notin DOMAIN existing_data.kv

(***************************************************************************)
(* Properties of the timeslot validator                                    *)
(***************************************************************************)
\* the call has returned or raised
Validated == timeslot_out # NoVerdict

\* seconds since midnight
SecondsOfDay(t) == 3600 * t[1] + 60 * t[2] + t[3]

\* 11:00:00 <= t <= 23:30:00
InWindow(t) == 39600 <= SecondsOfDay(t) /\ SecondsOfDay(t) <= 84600

\* C13: for a time of day t the validator answers valid exactly when
\* 11:00:00 <= t <= 23:30:00, both limits included; 14:00 is valid, 23:45
\* and 09:00 are not.
C13_ValidExactlyInWindow ==
    (Validated /\ timeslot_in \in DOMAIN Clock) =>
        /\ ~timeslot_out.raised
        /\ timeslot_out.valid <=> InWindow(Clock[timeslot_in])
        /\ timeslot_in = "14:00:00" => timeslot_out.valid
        /\ timeslot_in \in {"23:45:00", "09:00:00"} => ~timeslot_out.valid

\* C13 witness: the closing time itself was validated and found valid.
C13_Witness ==
    /\ Validated
    /\ timeslot_in = "23:30:00"
    /\ timeslot_out.valid

\* C14: for a time outside the window the message suggests the time twelve
\* hours later exactly when the hour is 1..10 and that later time is inside
\* the window; for every other such time (hour 0, or after 23:30) it is the
\* plain out-of-hours message.
C14_PmSuggestionBand ==
    (Validated /\ timeslot_in \in DOMAIN Clock /\ ~InWindow(Clock[timeslot_in])) =>
        LET t == Clock[timeslot_in]
            pm == <<t[1] + 12, t[2], t[3]>>
        IN  /\ ~timeslot_out.valid
            /\ timeslot_out.message =
                  IF t[1] \in 1..10 /\ InWindow(pm)
                  THEN "closed at " \o Time12hr(t) \o ", did you mean " \o Time12hr(pm)
                  ELSE "closed at " \o Time12hr(t)
            /\ (t[1] = 0 \/ SecondsOfDay(t) > 84600) =>
                  timeslot_out.message = "closed at " \o Time12hr(t)

\* C14 witness: 09:00 was validated and 09:00 PM suggested.
C14_Witness ==
    /\ Validated
    /\ timeslot_in = "09:00:00"
    /\ timeslot_out.message = "closed at 09:00 AM, did you mean 09:00 PM"

\* C15 (as claimed): the validator never raises; for every input that is not
\* a time of day - empty, missing, of the wrong format, or not a string - it
\* returns invalid with a help message.
C15_NeverRaises ==
    Validated =>
        /\ ~timeslot_out.raised
        /\ timeslot_in \notin DOMAIN Clock =>
               /\ ~timeslot_out.valid
               /\ timeslot_out.message \in {"provide_time", "invalid_format"}

(***************************************************************************)
(* Properties of the booking workflow                                      *)
(***************************************************************************)
\* the turn that has just ended made a call to this booking API
Called(api) == \E i \in 1..Len(api_calls) : api_calls[i].api = api

\* the turn that has just ended enqueued this message
Sent(kind) == \E i \in 1..Len(sent) : sent[i] = kind

\* C3: a turn issues the booking-commit call only if the draft it read at
\* its start had awaiting_confirmation = true, and no turn both shows a
\* confirmation prompt and commits.
C3_CommitOnlyWhenAwaiting ==
    (apc = "done" /\ Called("booking")) =>
        /\ "awaiting_confirmation" \in DOMAIN pending_data.kv
        /\ pending_data.kv["awaiting_confirmation"] = "True"
        /\ ~Sent("confirmation_prompt")
        /\ ~Sent("safety_prompt")
        /\ ~Sent("updated_summary")

\* the turn that has just ended made a call to this API and the call returned
Succeeded(api) == \E i \in 1..Len(api_calls) : api_calls[i].api = api /\ api_calls[i].ok

\* the turn that has just ended made a call to this API and the call raised
Failed(api) == \E i \in 1..Len(api_calls) : api_calls[i].api = api /\ ~api_calls[i].ok

\* C16: a turn that read a confirmed draft awaiting update confirmation and
\* whose update call succeeded leaves the stored draft with confirmed = true,
\* awaiting_update_confirmation = false, no pending_update_fields, every
\* pending field holding its pending value, and the booking_reference the
\* draft had before the turn.
C16_UpdateCommitted ==
    (apc = "done" /\ Succeeded("update")) =>
        /\ Flag(pending_data, "confirmed")
        /\ Flag(pending_data, "awaiting_update_confirmation")
        /\ pending_data.pending_update_fields # <<>>
        /\ Get(pending_booking_data.kv, "confirmed") = "True"
        /\ Get(pending_booking_data.kv, "awaiting_update_confirmation") = "False"
        /\ pending_booking_data.pending_update_fields = <<>>
        /\ \A k \in DOMAIN pending_data.pending_update_fields[1] :
               /\ k \in DOMAIN pending_booking_data.kv
               /\ pending_booking_data.kv[k] = pending_data.pending_update_fields[1][k]
        /\ "booking_reference" \in DOMAIN pending_data.kv
        /\ Get(pending_booking_data.kv, "booking_reference")
               = pending_data.kv["booking_reference"]

\* C16 witness: the update of the time of a confirmed booking was confirmed
\* and committed.
C16_Witness ==
    /\ apc = "done"
    /\ Succeeded("update")
    /\ Sent("update_done")
    /\ message.is_confirmation_message
    /\ pending_data.pending_update_fields = << [timeslot |-> "15:00:00"] >>
    /\ pending_booking_data.kv["timeslot"] = "15:00:00"
    /\ pending_booking_data.kv["booking_reference"] = BookingReference

\* C17 (as claimed): a general-question turn that reads a draft awaiting
\* confirmation is answered by the Q&A chain and nothing else - no booking
\* API call, the stored draft unchanged, awaiting_confirmation still true.
C17_QuestionKeepsDraft ==
    (apc = "done" /\ AwaitingConfirmation(pending_data) /\ message.is_general_question) =>
        /\ pending_booking_data = pending_data
        /\ Flag(pending_booking_data, "awaiting_confirmation")
        /\ api_calls = <<>>
        /\ \A i \in 1..Len(sent) : sent[i] = "answer"

\* C17 (as claimed): ... and a confirm reply in the turn after such a
\* question makes the booking call with exactly the field values that were
\* stored before the question.
C17_ThenConfirmCommitsOriginal ==
    (after_question /\ apc = "idle" /\ apc' = "done" /\ message'.is_confirmation_message) =>
        \E i \in 1..Len(api_calls') :
            /\ api_calls'[i].api = "booking"
            /\ \A k \in Fields :
                   Get(api_calls'[i].booking.kv, k) = Get(pending_booking_data.kv, k)

\* C17 (as claimed): both parts, over every pair of consecutive turns.
C17_QuestionThenConfirm ==
    [](C17_QuestionKeepsDraft) /\ [][C17_ThenConfirmCommitsOriginal]_vars

\* C19 (as claimed): a turn calls the cancellation API, and clears the draft
\* on a cancel keyword, only if the draft it read is a confirmed booking; a
\* cancel keyword on an unconfirmed draft calls no cancellation.
C19_CancelOnlyConfirmed ==
    (apc = "done" /\ message.has_cancel_intent /\ ~Flag(pending_data, "confirmed")) =>
        /\ ~Called("cancel")
        /\ ~Sent("cancelled")

\* C20: when the cancellation call fails the stored draft is the one the
\* turn read - not cleared, still confirmed, same booking_reference - and
\* the apology is sent.
C20_FailedCancelKeepsDraft ==
    (apc = "done" /\ Failed("cancel")) =>
        /\ pending_booking_data = pending_data
        /\ IsSet(pending_booking_data)
        /\ Flag(pending_data, "confirmed") =>
               /\ Flag(pending_booking_data, "confirmed")
               /\ Get(pending_booking_data.kv, "booking_reference")
                      = Get(pending_data.kv, "booking_reference")
        /\ sent = <<"cancel_error">>

\* C20 witness: the cancellation of a confirmed booking failed.
C20_Witness ==
    /\ apc = "done"
    /\ Failed("cancel")
    /\ message.has_cancel_intent
    /\ Flag(pending_data, "confirmed")
    /\ Get(pending_booking_data.kv, "booking_reference") = BookingReference
    /\ Sent("cancel_error")

\* C21: a turn with a cancel keyword that read a stored draft - in whatever
\* state, awaiting an update confirmation included - returns in the cancel
\* branch (or before it, when reading the chat history raised): it makes no
\* commit and no update call, runs no extraction, and leaves the stored
\* draft either cleared or exactly as it was.
C21_CancelFirst ==
    (apc = "done" /\ message.has_cancel_intent /\ IsSet(pending_data)) =>
        /\ branch \in {"cancel", "error"}
        /\ ~Called("booking") /\ ~Called("update")
        /\ pending_booking_data \in {NoDraft, pending_data}
        /\ branch = "cancel" =>
               /\ Len(api_calls) = 1 /\ Called("cancel")
               /\ sent \in {<<"cancelled">>, <<"cancel_error">>}
        /\ branch = "error" => api_calls = <<>> /\ sent = <<>>

\* C21 witness: "yes, cancel" while an update awaited confirmation cancelled
\* the booking.
C21_Witness ==
    /\ apc = "done"
    /\ message.has_cancel_intent /\ message.is_confirmation_message
    /\ AwaitingUpdate(pending_data)
    /\ branch = "cancel"
    /\ Succeeded("cancel")
    /\ pending_booking_data = NoDraft

\* C22 (as claimed): a reject reply to a proposed update makes no update
\* call, removes pending_update_fields, clears awaiting_update_confirmation
\* and leaves every booking field of the stored draft at the value it had in
\* the confirmed booking before the update was proposed.
C22_RejectRestoresBooking ==
    (/\ apc = "done" /\ branch = "update_reply"
     /\ AwaitingUpdate(pending_data) /\ message.is_change_request) =>
        /\ api_calls = <<>>
        /\ pending_booking_data.pending_update_fields = <<>>
        /\ ~Flag(pending_booking_data, "awaiting_update_confirmation")
        /\ \A k \in Fields :
               Get(pending_booking_data.kv, k) = Get(booking_before_update.kv, k)

\* C23 (as claimed): a general-question turn (without a cancel keyword) that
\* read a booking awaiting update confirmation leaves the stored draft as it
\* was - same fields, awaiting_update_confirmation true, same
\* pending_update_fields - and makes no update call, whatever the
\* classifiers and the extractor answer.
C23_QuestionKeepsUpdate ==
    (/\ apc = "done" /\ AwaitingUpdate(pending_data)
     /\ message.is_general_question /\ ~message.has_cancel_intent) =>
        /\ pending_booking_data = pending_data
        /\ ~Called("update")

\* the turn that has just ended handled an update request that names a
\* timeslot which validate_booking_timeslot does not accept
InvalidTimeslotUpdate ==
    /\ apc = "done" /\ branch = "update_request"
    /\ "timeslot" \in DOMAIN update_detection.updated_fields
    /\ ~validate_booking_timeslot(update_detection.updated_fields["timeslot"]).valid

\* C24: an update request on a confirmed booking whose new timeslot fails
\* the validation is answered with one message - the validator's, or the
\* apology when the validator raised - and leaves the stored draft as it
\* was: no pending_update_fields stored, awaiting_update_confirmation not
\* set, no API call.
C24_InvalidUpdateRejected ==
    InvalidTimeslotUpdate =>
        /\ Flag(pending_data, "confirmed")
        /\ pending_booking_data = pending_data
        /\ api_calls = <<>>
        /\ sent \in {<<validate_booking_timeslot(
                           update_detection.updated_fields["timeslot"]).message>>,
                     <<"update_error">>}

\* C24 witness: the update of a confirmed 14:00 booking to 09:00 was refused
\* with the out-of-hours message.
C24_Witness ==
    /\ InvalidTimeslotUpdate
    /\ update_detection.updated_fields = [timeslot |-> "09:00:00"]
    /\ ~AwaitingUpdate(pending_data)
    /\ pending_booking_data.kv["timeslot"] = "14:00:00"
    /\ pending_booking_data.pending_update_fields = <<>>
    /\ sent = <<"closed at 09:00 AM, did you mean 09:00 PM">>

\* C25: a turn calls the update API only if the draft it read was confirmed
\* and awaiting update confirmation and its message is a confirmation; the
\* turn that detects an update request makes no API call.
C25_UpdateOnlyOnConfirm ==
    /\ (apc = "done" /\ Called("update")) =>
           /\ Flag(pending_data, "confirmed")
           /\ Flag(pending_data, "awaiting_update_confirmation")
           /\ message.is_confirmation_message
           /\ branch = "update_reply"
           /\ Len(api_calls) = 1
    /\ (apc = "done" /\ branch = "update_request") => api_calls = <<>>

\* C25 witness: the update proposed in an earlier turn ({pax: 2}, stored as
\* pending) was sent to the API after the confirm reply.
C25_Witness ==
    /\ apc = "done"
    /\ Called("update")
    /\ branch = "update_reply"
    /\ pending_data.pending_update_fields = << [pax |-> "2"] >>
    /\ api_calls[1].booking.kv["pax"] = "2"

\* C26 (as claimed): after a successful booking commit the stored draft has
\* confirmed = true, a booking_reference and a confirmed_at, and its
\* awaiting_confirmation is cleared.
C26_CommitClearsAwaiting ==
    (apc = "done" /\ Succeeded("booking")) =>
        /\ Get(pending_booking_data.kv, "confirmed") = "True"
        /\ Get(pending_booking_data.kv, "booking_reference") = BookingReference
        /\ Get(pending_booking_data.kv, "confirmed_at") = Now
        /\ ~Flag(pending_booking_data, "awaiting_confirmation")

\* C27: a turn whose booking call failed leaves no draft in the store and
\* sends the error message ...
C27_FailedCommitClears ==
    (apc = "done" /\ Failed("booking")) =>
        /\ pending_booking_data = NoDraft
        /\ sent = <<"booking_error">>
        /\ Len(api_calls) = 1

\* ... and the turn that follows it, starting with nothing stored, makes no
\* booking call whatever its message is: at most it stores a new draft or
\* shows a confirmation prompt.
C27_ThenNoCommit ==
    (apc = "idle" /\ pending_booking_data = NoDraft /\ apc' = "done") =>
        /\ api_calls' = <<>>
        /\ ~Flag(pending_booking_data', "confirmed")

\* C27: both parts.
C27_FailedCommitNotRetried ==
    [](C27_FailedCommitClears) /\ [][C27_ThenNoCommit]_vars

\* C27 witness: the commit of a draft awaiting confirmation failed after the
\* reply "yes"; nothing is stored.
C27_Witness ==
    /\ apc = "done"
    /\ Failed("booking")
    /\ message.is_confirmation_message
    /\ AwaitingConfirmation(pending_data)
    /\ pending_booking_data = NoDraft
    /\ Sent("booking_error")

\* C28: when the update call made after a confirm reply fails, the stored
\* draft is the one the turn read - nothing is written, the update still
\* awaits confirmation - and the user gets the error message.
C28_FailedUpdateKeepsDraft ==
    (apc = "done" /\ Failed("update")) =>
        /\ AwaitingUpdate(pending_data)
        /\ message.is_confirmation_message
        /\ pending_booking_data = pending_data
        /\ sent = <<"update_error">>
        /\ Len(api_calls) = 1

\* C28 witness: the update to 15:00, confirmed with "yes", failed at the API.
C28_Witness ==
    /\ apc = "done"
    /\ Failed("update")
    /\ message.is_confirmation_message
    /\ pending_data.pending_update_fields = << [timeslot |-> "15:00:00"] >>
    /\ AwaitingUpdate(pending_booking_data)
    /\ pending_booking_data.pending_update_fields = << [timeslot |-> "15:00:00"] >>
    /\ Sent("update_error")

\* drafts a and b hold the same booking fields
SameFields(a, b) == \A k \in Fields : Get(a.kv, k) = Get(b.kv, k)

\* The turn that has just ended read a complete draft awaiting confirmation
\* and got a reject reply without field values: the message is a change
\* request (and not about another topic), the extraction found the draft
\* complete and no field to change, and the intent analysis - when it was
\* reached - gave no field_updates (its answer after a failed call included).
RejectWithoutValues ==
    /\ apc = "done" /\ branch = "booking_flow"
    /\ AwaitingConfirmation(pending_data)
    /\ RequiredFields \subseteq DOMAIN pending_data.kv
    /\ message.is_change_request /\ ~message.is_about_other_topic
    /\ extraction_result.is_complete
    /\ SameFields(extraction_result.data, pending_data)
    /\ intent_analysis.field_updates = EmptyDict

\* C29 (as claimed): such a turn issues no commit, stores the draft with
\* awaiting_confirmation = false and every other key as it was, and asks
\* what to change (the conversation is in COLLECTING).
C29_RejectClearsAwaiting ==
    RejectWithoutValues =>
        /\ api_calls = <<>>
        /\ Get(pending_booking_data.kv, "awaiting_confirmation") = "False"
        /\ \A k \in DOMAIN pending_data.kv \ {"awaiting_confirmation"} :
               Get(pending_booking_data.kv, k) = pending_data.kv[k]
        /\ sent = <<"ask_what_to_change">>

\* The turn that has just ended read a draft with awaiting_confirmation true
\* and merged it into a draft that differs from it in a key field.
MateriallyChanged ==
    /\ apc = "done" /\ branch = "booking_flow"
    /\ Flag(pending_data, "awaiting_confirmation")
    /\ \E field \in key_fields :
           Get(pending_data.kv, field) # Get(extraction_result.data.kv, field)

\* C30 (as claimed): such a turn issues no commit, whatever the message is;
\* it shows a fresh confirmation prompt for the new values and stores the
\* merged draft with awaiting_confirmation = true.
C30_ChangedDraftReprompts ==
    MateriallyChanged =>
        /\ api_calls = <<>>
        /\ sent = <<"confirmation_prompt">>
        /\ pending_booking_data =
               SetKey(extraction_result.data, "awaiting_confirmation", "True")

\* C30 (amended): such a turn issues no commit, whatever the message is;
\* when the merged draft is complete and its timeslot passes the validation,
\* it shows a fresh confirmation prompt and stores the merged draft with
\* awaiting_confirmation = true.  Otherwise no prompt is shown: an
\* incomplete draft is stored and the missing fields are asked for, a
\* timeslot outside the hours is dropped from the stored draft and reported.
C30_ChangedValidDraftReprompts ==
    MateriallyChanged =>
        LET booking_data == extraction_result.data
            timeslot_validation ==
                validate_booking_timeslot(Get(booking_data.kv, "timeslot"))
        IN  /\ api_calls = <<>>
            /\ (extraction_result.is_complete /\ timeslot_validation.valid) =>
                   /\ sent = <<"confirmation_prompt">>
                   /\ pending_booking_data =
                          SetKey(booking_data, "awaiting_confirmation", "True")
            /\ ~extraction_result.is_complete =>
                   sent = <<"ask_missing">> /\ pending_booking_data = booking_data
            /\ (/\ extraction_result.is_complete /\ ~timeslot_validation.valid
                /\ ~timeslot_validation.raised) =>
                   /\ sent = <<timeslot_validation.message>>
                   /\ pending_booking_data =
                          [booking_data EXCEPT !.kv = Pop(@, "timeslot")]

\* C30 witness: "yes" arrived together with a new time for a draft shown
\* with 14:00; the draft with 15:00 was shown for confirmation, not committed.
C30_Witness ==
    /\ MateriallyChanged
    /\ message.is_confirmation_message /\ ~message.is_about_other_topic
    /\ pending_data.kv["timeslot"] = "14:00:00"
    /\ pending_booking_data.kv["timeslot"] = "15:00:00"
    /\ Flag(pending_booking_data, "awaiting_confirmation")
    /\ sent = <<"confirmation_prompt">>
    /\ api_calls = <<>>

\* the timeslot of the draft passes validate_booking_timeslot
TimeslotValid(d) ==
    LET timeslot_validation == validate_booking_timeslot(Get(d.kv, "timeslot"))
    IN  timeslot_validation.valid /\ ~timeslot_validation.raised

\* the draft holds a timeslot (a value that is not None)
HasTimeslot(d) == IsSet(d) /\ truthy(Get(d.kv, "timeslot"))

\* C31: after any turn of the new-booking flow, the stored draft holds no
\* timeslot that fails validate_booking_timeslot, whether or not the other
\* required fields are complete.
C31_StoredTimeslotValid ==
    (apc = "done" /\ branch = "booking_flow" /\ HasTimeslot(pending_booking_data)) =>
        TimeslotValid(pending_booking_data)

\* The turn that has just ended merged a complete draft whose timeslot
\* validate_booking_timeslot does not accept (lines 1175-1180).
ValidationFailed ==
    /\ apc = "done" /\ branch = "booking_flow"
    /\ extraction_result.is_complete
    /\ ~TimeslotValid(extraction_result.data)

\* C32: when the timeslot validation fails in the new-booking flow, only the
\* timeslot is removed: every other field of the merged draft is stored
\* unchanged, the violation is reported, no confirmation prompt is shown,
\* awaiting_confirmation is not true in the stored draft and no commit is
\* issued.
C32_FailureDropsOnlyTimeslot ==
    ValidationFailed =>
        /\ pending_booking_data =
               [extraction_result.data EXCEPT !.kv = Pop(@, "timeslot")]
        /\ sent # <<>>
        /\ ~Sent("confirmation_prompt") /\ ~Sent("safety_prompt")
        /\ ~Sent("updated_summary")
        /\ ~Flag(pending_booking_data, "awaiting_confirmation")
        /\ api_calls = <<>>

\* C33: in every stored draft, awaiting_confirmation = true implies that the
\* five required fields are present.
C33_AwaitingImpliesComplete ==
    Flag(pending_booking_data, "awaiting_confirmation") =>
        \A field \in RequiredFields : truthy(Get(pending_booking_data.kv, field))

\* C37: over any sequence of turns of one sender, the number of
\* booking-commit calls never exceeds the number of confirmation prompts
\* shown.
C37_CommitsWithinPrompts == commits_made <= prompts_shown

\* C38: no booking-commit call and no update call is made with a draft whose
\* timeslot fails validate_booking_timeslot.
C38_NoCallWithInvalidTimeslot ==
    \A i \in 1..Len(api_calls) :
        api_calls[i].api \in {"booking", "update"} =>
            TimeslotValid(api_calls[i].booking)

\* C39: in every stored draft, awaiting_update_confirmation = true implies
\* confirmed = true and pending_update_fields present, and
\* pending_update_fields is present only while awaiting_update_confirmation
\* is true.
C39_UpdateFlagsConsistent ==
    /\ Flag(pending_booking_data, "awaiting_update_confirmation") =>
           /\ Flag(pending_booking_data, "confirmed")
           /\ pending_booking_data.pending_update_fields # <<>>
    /\ pending_booking_data.pending_update_fields # <<>> =>
           Flag(pending_booking_data, "awaiting_update_confirmation")

\* C39 witness: a turn proposed an update of a confirmed booking; the stored
\* draft awaits the update's confirmation and holds the proposed fields.
C39_Witness ==
    /\ apc = "done" /\ branch = "update_request"
    /\ Flag(pending_booking_data, "awaiting_update_confirmation")
    /\ Flag(pending_booking_data, "confirmed")
    /\ pending_booking_data.pending_update_fields = <<update_detection.updated_fields>>
    /\ ~Flag(pending_data, "awaiting_update_confirmation")
    /\ pending_data.pending_update_fields = <<>>

\* C3 witness: a turn read a draft awaiting confirmation and committed it.
C3_Witness ==
    /\ apc = "done"
    /\ Called("booking")
    /\ Sent("booking_confirmed")
    /\ Flag(pending_data, "awaiting_confirmation")
    /\ message.is_confirmation_message
====
